---- MODULE Spec2Model ----
(***************************************************************************)
(* The routing (host) agent of the airbnb_planner_multiagent sample:       *)
(* host_agent/routing_agent.py.  The model covers the remote agent         *)
(* registry, the per-session conversation state, the three tools and the   *)
(* bounded tool-calling loop RoutingAgent.handle.                          *)
(*                                                                         *)
(* Python values are modelled as follows.  A str is a TLA+ string; None is *)
(* None or Nothing below; a dict is a function whose DOMAIN is its key set  *)
(* (EmptyDict, Get, Put); a dict whose insertion order the code relies on  *)
(* is a sequence of records in insertion order; uuid.uuid4() draws the     *)
(* next value of a counter.                                                *)
(***************************************************************************)
EXTENDS Integers, Sequences, FiniteSets, TLC

VARIABLES
    remote_agent_connections, \* self.remote_agent_connections, insertion order
    cards,                    \* self.cards, insertion order
    remote_agent_addresses,   \* self.remote_agent_addresses
    feedback_records,         \* self.feedback_records
    authorized_feedback_agent_ids,
    authorized_feedback_agent_addr_by_id,
    authorized_feedback_auth_id_by_target_id,
    state,                    \* the session state dict the caller passes to handle
    uuid_count,               \* number of uuid.uuid4() values drawn so far
    pc,                       \* position of the handle coroutine
    step,                     \* iterations of `for _ in range(max_steps)` begun
    llm_calls,                \* calls of client.chat.completions.create
    allowed_agents,           \* handle's local allowed_agents (tool schema enum)
    messages,                 \* handle's local transcript
    tool_calls,               \* tool calls of the current LLM response
    tc_index,                 \* index of the tool call being processed
    args,                     \* parsed arguments of the current tool call
    final_text,               \* handle's local final_text
    events,                   \* events yielded to the caller so far
    exc,                      \* exception that left handle, or None
    assistant_msg,            \* the last LLM response, or Nothing
    provider,                 \* the LLM provider's behaviour in this run
    sent,                     \* requests delivered to remote agents, with replies
    auth_calls,               \* invocations of authorize_feedback_from_client
    fetches,                  \* agent card fetches made, in order
    remote,                   \* how the remote agents answer in this run
    chain,                    \* the identity and reputation registries
    environ,                  \* os.environ
    ops,                      \* operations applied so far (operation-level runs)
    op_log,                   \* the operations applied, with arguments and results
    tasks,                    \* the coroutines of concurrent calls
    _active_sessions,         \* WeatherExecutor._active_sessions
    _sessions                 \* WeatherExecutor._sessions: context id -> messages

vars == <<remote_agent_connections, cards, remote_agent_addresses,
          feedback_records, authorized_feedback_agent_ids,
          authorized_feedback_agent_addr_by_id,
          authorized_feedback_auth_id_by_target_id, state, uuid_count, pc,
          step, llm_calls, allowed_agents, messages, tool_calls, tc_index,
          args, final_text, events, exc, assistant_msg, provider, sent,
          auth_calls, fetches, remote, chain, environ, ops,
          op_log, tasks,
                   _active_sessions, _sessions>>

agent_vars == <<remote_agent_connections, cards, remote_agent_addresses,
                feedback_records, authorized_feedback_agent_ids,
                authorized_feedback_agent_addr_by_id,
                authorized_feedback_auth_id_by_target_id>>

handle_vars == <<pc, step, llm_calls, allowed_agents, messages, tool_calls,
                 tc_index, args, final_text, events, exc, assistant_msg,
                 provider>>

---------------------------------------------------------------------------
(* Python values *)

\* None where the code holds a str (or a bool)
None == "<None>"

\* None where the code holds an object (a dict, a Task, ...)
Nothing == [none |-> TRUE]

EmptyDict == [k \in {} |-> None]

Get(d, k, default) == IF k \in DOMAIN d THEN d[k] ELSE default

Put(d, k, v) == [x \in (DOMAIN d) \cup {k} |-> IF x = k THEN v ELSE d[x]]

\* `if v:` for a str or None
Truthy(v) == v # None /\ v # ""

\* uuid.uuid4(): the n-th value drawn
Uuid(n) == [uuid |-> n]

\* Body(v) with v evaluated once: `x = v; ... x ... x ...`
With(v, Body(_)) == CHOOSE y \in {Body(x) : x \in {v}} : TRUE

---------------------------------------------------------------------------
(* str methods used by the code *)

UpperAlphabet == "ABCDEFGHIJKLMNOPQRSTUVWXYZ"
LowerAlphabet == "abcdefghijklmnopqrstuvwxyz"

\* the lower-case letter of every upper-case letter
LowerOfUpper ==
    [c \in {SubSeq(UpperAlphabet, i, i) : i \in 1..Len(UpperAlphabet)} |->
        LET i == CHOOSE j \in 1..Len(UpperAlphabet) :
                     SubSeq(UpperAlphabet, j, j) = c
        IN SubSeq(LowerAlphabet, i, i)]

LowerChar(c) == IF c \in DOMAIN LowerOfUpper THEN LowerOfUpper[c] ELSE c

RECURSIVE Lower(_)
\* s.lower()
Lower(s) ==
    IF s = "" THEN ""
    ELSE LowerChar(SubSeq(s, 1, 1)) \o Lower(SubSeq(s, 2, Len(s)))

RECURSIVE Strip(_)
\* s.strip()
Strip(s) ==
    IF s = "" THEN ""
    ELSE IF SubSeq(s, 1, 1) = " " THEN Strip(SubSeq(s, 2, Len(s)))
    ELSE IF SubSeq(s, Len(s), Len(s)) = " " THEN Strip(SubSeq(s, 1, Len(s) - 1))
    ELSE s

\* a in b
Contains(a, b) ==
    \E i \in 1..(Len(b) - Len(a) + 1) : SubSeq(b, i, i + Len(a) - 1) = a

\* s.startswith(p)
StartsWith(s, p) == Len(p) <= Len(s) /\ SubSeq(s, 1, Len(p)) = p

\* s.endswith(p)
EndsWith(s, p) ==
    Len(p) <= Len(s) /\ SubSeq(s, Len(s) - Len(p) + 1, Len(s)) = p

---------------------------------------------------------------------------
(* Remote agent registry *)

FINDER == "Airbnb Agent - Finder"
RESERVE == "Airbnb Agent - Reserve"
WEATHER == "Weather Agent"

\* keys of an insertion-ordered dict, in order: list(d.keys())
Keys(d) == [i \in 1..Len(d) |-> d[i].name]

\* name in d
Has(d, name) == \E i \in 1..Len(d) : d[i].name = name

\* OrderedPut that keeps the value of an existing key
OrderedPutFirstWins(d, name, value) ==
    IF Has(d, name) THEN d
    ELSE Append(d, [name |-> name, value |-> value])

\* d[name] = value: a new key goes last, an existing key keeps its place
OrderedPut(d, name, value) ==
    IF Has(d, name)
    THEN [i \in 1..Len(d) |->
              IF d[i].name = name THEN [name |-> name, value |-> value] ELSE d[i]]
    ELSE Append(d, [name |-> name, value |-> value])

\* d[name]
Lookup(d, name) == d[CHOOSE i \in 1..Len(d) : d[i].name = name].value

\* first element of the list `names` that satisfies Test, or None
FirstMatch(names, Test(_)) ==
    IF \E i \in 1..Len(names) : Test(names[i])
    THEN names[CHOOSE i \in 1..Len(names) :
                   Test(names[i]) /\ \A j \in 1..(i - 1) : ~Test(names[j])]
    ELSE None

\* alias_map without its 'seller agent' entry
alias_mapWithoutSeller ==
    [k \in {"finder", "search agent", "reserve", "reservation agent",
            "booking agent", "weather"} |->
        CASE k \in {"finder", "search agent"} -> FINDER
          [] k \in {"reserve", "reservation agent", "booking agent"} -> RESERVE
          [] k = "weather" -> WEATHER]

alias_map ==
    [k \in {"seller agent", "finder", "search agent", "reserve",
            "reservation agent", "booking agent", "weather"} |->
        CASE k \in {"seller agent", "finder", "search agent"} -> FINDER
          [] k \in {"reserve", "reservation agent", "booking agent"} -> RESERVE
          [] k = "weather" -> WEATHER]

\* ResolveIn returning the alias target whether or not it is registered
ResolveInAnyAliasTarget(conns, requested) ==
    IF ~Truthy(requested) THEN None
    ELSE IF Has(conns, requested) THEN requested
    ELSE With(Lower(requested), LAMBDA lowered :
         With(FirstMatch(Keys(conns), LAMBDA n : Lower(n) = lowered),
              LAMBDA insensitive :
         IF insensitive # None THEN insensitive
         ELSE With(Strip(lowered), LAMBDA normalized :
              IF normalized \in DOMAIN alias_map
              THEN alias_map[normalized]
              ELSE FirstMatch(Keys(conns),
                              LAMBDA n : \/ Contains(normalized, Lower(n))
                                         \/ Contains(Lower(n), normalized)))))

\* RoutingAgent._resolve_agent_name over the registry `conns`
ResolveIn(conns, requested) ==
    IF ~Truthy(requested) THEN None
    ELSE IF Has(conns, requested) THEN requested
    ELSE With(Lower(requested), LAMBDA lowered :
         With(FirstMatch(Keys(conns), LAMBDA n : Lower(n) = lowered),
              LAMBDA insensitive :
         IF insensitive # None THEN insensitive
         ELSE With(Strip(lowered), LAMBDA normalized :
              IF normalized \in DOMAIN alias_map
                 /\ Has(conns, alias_map[normalized])
              THEN alias_map[normalized]
              ELSE FirstMatch(Keys(conns),
                              LAMBDA n : \/ Contains(normalized, Lower(n))
                                         \/ Contains(Lower(n), normalized)))))

_resolve_agent_name(requested) == ResolveIn(remote_agent_connections, requested)

---------------------------------------------------------------------------
(* Probing the configured addresses *)

\* first index at which `sub` occurs in s, or 0
IndexOf(s, sub) ==
    IF Contains(sub, s)
    THEN CHOOSE i \in 1..(Len(s) - Len(sub) + 1) :
             /\ SubSeq(s, i, i + Len(sub) - 1) = sub
             /\ \A j \in 1..(i - 1) : SubSeq(s, j, j + Len(sub) - 1) # sub
    ELSE 0

\* urlparse(address if '://' in address else f'http://{address}'):
\* scheme, hostname, port and path (port None when absent)
urlparse(address) ==
    With(IF Contains("://", address) THEN address ELSE "http://" \o address,
         LAMBDA url :
    With(IndexOf(url, "://"), LAMBDA k :
    With(SubSeq(url, k + 3, Len(url)), LAMBDA rest :
    With(IndexOf(rest, "/"), LAMBDA slash :
    With(IF slash = 0 THEN rest ELSE SubSeq(rest, 1, slash - 1), LAMBDA netloc :
    With(IndexOf(netloc, ":"), LAMBDA colon :
        [scheme |-> SubSeq(url, 1, k - 1),
         hostname |-> Lower(IF colon = 0 THEN netloc
                            ELSE SubSeq(netloc, 1, colon - 1)),
         port |-> IF colon = 0 THEN None
                  ELSE SubSeq(netloc, colon + 1, Len(netloc)),
         path |-> IF slash = 0 THEN ""
                  ELSE SubSeq(rest, slash, Len(rest))]))))))

\* the path of the rewritten address
FallbackPath(hostname, path) ==
    IF (Contains("reserve", hostname) \/ Contains("reserve", path))
       /\ ~StartsWith(path, "/reserve")
    THEN "/reserve"
    ELSE IF (Contains("finder", hostname) \/ Contains("finder", path))
            /\ ~StartsWith(path, "/finder")
    THEN "/finder"
    ELSE path

\* the .localhost / variant-path rewrite of an address; None when the
\* rewrite changes neither host nor path
FallbackAddress(address) ==
    With(urlparse(address), LAMBDA parsed :
    With(IF parsed.path = "" THEN "/" ELSE parsed.path, LAMBDA path :
    With(IF EndsWith(parsed.hostname, ".localhost") THEN "localhost"
         ELSE parsed.hostname, LAMBDA new_host :
    With(FallbackPath(parsed.hostname, path), LAMBDA new_path :
        IF new_host # parsed.hostname \/ new_path # path
        THEN (IF parsed.scheme = "" THEN "http" ELSE parsed.scheme)
             \o "://"
             \o (IF parsed.port # None THEN new_host \o ":" \o parsed.port
                 ELSE new_host)
             \o new_path
        ELSE None))))

FINDER_URL == "http://finder.localhost:10002"
RESERVE_URL == "http://reserve.localhost:10002"
WEATHER_URL == "http://localhost:10001"

\* the agent card each URL of the deployment serves
CardNameAt(url) ==
    CASE url \in {FINDER_URL, "http://localhost:10002/finder"} -> FINDER
      [] url \in {RESERVE_URL, "http://localhost:10002/reserve"} -> RESERVE
      [] url = WEATHER_URL -> WEATHER
      [] OTHER -> None

\* A2ACardResolver(client, url).get_agent_card() when exactly the URLs of
\* `net` answer: the card's name, or None when the fetch raises
get_agent_card(url, net) == IF url \in net THEN CardNameAt(url) ELSE None

\* RegisterOne fetching the original address once more after the
\* rewritten address failed
RegisterOneRetriesOriginal(r, address, net) ==
    With(get_agent_card(address, net), LAMBDA card :
    IF card # None
    THEN [conns |-> OrderedPut(r.conns, card, address),
          cards |-> OrderedPut(r.cards, card, address),
          fetches |-> Append(r.fetches, address)]
    ELSE With(FallbackAddress(address), LAMBDA fallback_address :
         IF fallback_address = None
         THEN [r EXCEPT !.fetches = Append(@, address)]
         ELSE With(get_agent_card(fallback_address, net), LAMBDA card2 :
              IF card2 # None
              THEN [conns |-> OrderedPut(r.conns, card2, fallback_address),
                    cards |-> OrderedPut(r.cards, card2, address),
                    fetches |-> r.fetches \o <<address, fallback_address>>]
              ELSE [r EXCEPT !.fetches =
                        @ \o <<address, fallback_address, address>>])))

\* the registry r = [conns, cards, fetches] after probing one address
RegisterOne(r, address, net) ==
    With(get_agent_card(address, net), LAMBDA card :
    IF card # None
    THEN [conns |-> OrderedPut(r.conns, card, address),
          cards |-> OrderedPut(r.cards, card, address),
          fetches |-> Append(r.fetches, address)]
    ELSE With(FallbackAddress(address), LAMBDA fallback_address :
         IF fallback_address = None
         THEN [r EXCEPT !.fetches = Append(@, address)]
         ELSE With(get_agent_card(fallback_address, net), LAMBDA card2 :
              IF card2 # None
              THEN [conns |-> OrderedPut(r.conns, card2, fallback_address),
                    cards |-> OrderedPut(r.cards, card2, address),
                    fetches |-> r.fetches \o <<address, fallback_address>>]
              ELSE [r EXCEPT !.fetches = @ \o <<address, fallback_address>>])))

RECURSIVE RegisterAll(_, _, _)
\* one registration pass over `addresses`, from the registry r
RegisterAll(r, addresses, net) ==
    IF addresses = <<>> THEN r
    ELSE With(RegisterOne(r, Head(addresses), net), LAMBDA r1 :
              RegisterAll(r1, Tail(addresses), net))

\* RoutingAgent._async_init_components on a new RoutingAgent
_async_init_components(addresses, net) ==
    RegisterAll([conns |-> <<>>, cards |-> <<>>, fetches |-> <<>>],
                addresses, net)

\* _refresh_cards_if_needed without the test of line 203
_refresh_cards_if_neededAlways(r, addresses, net) ==
    IF addresses = <<>> THEN r
    ELSE RegisterAll(r, addresses, net)

\* RoutingAgent._refresh_cards_if_needed from the registry r
_refresh_cards_if_needed(r, addresses, net) ==
    IF r.conns # <<>> THEN r
    ELSE IF addresses = <<>> THEN r
    ELSE RegisterAll(r, addresses, net)

---------------------------------------------------------------------------
(* Identity / reputation collaborator (Erc8004Adapter) *)

FINDER_DOMAIN == "finder.localhost:10002"
RESERVE_DOMAIN == "reserve.localhost:10002"
ASSISTANT_DOMAIN == "assistant.localhost:8083"

\* os.getenv(name, default)
getenv(name, default) == Get(environ, name, default)

\* Erc8004Adapter.authorize_feedback_from_client: Nothing when the adapter is
\* disabled, no signing key is given or the transaction fails, else the
\* result dict (feedback_auth_id and client_address are None when absent)
authorize_feedback_from_client(ch, client_agent_id, server_agent_id, signing_private_key) ==
    IF ~ch.enabled \/ ~Truthy(signing_private_key) THEN Nothing
    ELSE ch.authorization

\* get_agent_by_domain answering an unknown domain with an identity
\* registered under another domain
get_agent_by_domainAnyIdentity(ch, domain) ==
    IF domain \in DOMAIN ch.identities THEN ch.identities[domain]
    ELSE IF DOMAIN ch.identities # {}
    THEN ch.identities[CHOOSE d \in DOMAIN ch.identities : TRUE]
    ELSE Nothing

\* Erc8004Adapter.get_agent_by_domain against the identity registry `ch`
\* (a dict domain -> {agent_id, address}): the entry, or None
get_agent_by_domain(ch, domain) == Get(ch.identities, domain, Nothing)

---------------------------------------------------------------------------
(* Conversation state store and send_message *)

\* a truthy argument that is not a str (a JSON number where a name is expected)
NOT_A_STR == "<42>"

\* ensure_session_state drawing a new id whatever the state holds
ensure_session_stateNewId(st) ==
    IF "session_active" \in DOMAIN st /\ st["session_active"]
    THEN [state |-> st, uuids |-> 0]
    ELSE [state |-> Put(Put(st, "session_id", Uuid(uuid_count + 1)),
                        "session_active", TRUE),
          uuids |-> 1]

\* RoutingAgent.ensure_session_state: [state, uuids drawn]
ensure_session_state(st) ==
    IF "session_active" \in DOMAIN st /\ st["session_active"]
    THEN [state |-> st, uuids |-> 0]
    ELSE LET has_id == "session_id" \in DOMAIN st
                       /\ st["session_id"] # Nothing
             sid == IF has_id THEN st["session_id"] ELSE Uuid(uuid_count + 1)
         IN [state |-> Put(Put(st, "session_id", sid), "session_active", TRUE),
             uuids |-> IF has_id THEN 0 ELSE 1]

\* RoutingAgent._get_active_agent_name
_get_active_agent_name(st) ==
    IF "session_id" \in DOMAIN st
       /\ "session_active" \in DOMAIN st /\ st["session_active"]
       /\ "active_agent" \in DOMAIN st
    THEN st["active_agent"]
    ELSE "None"

\* the key under which send_message stores the correlation ids of a call
CorrelationKey(agent_name, resolved_name) == agent_name

\* SessionForSend drawing a context id at every call (567-569 left out)
SessionForSendFreshContext(st, resolved_name, key) ==
    With(Put(st, "active_agent", resolved_name), LAMBDA st1 :
    With(IF "task_ids_by_agent" \in DOMAIN st1 THEN st1
         ELSE Put(st1, "task_ids_by_agent", EmptyDict), LAMBDA st2 :
    With(IF "context_ids_by_agent" \in DOMAIN st2 THEN st2
         ELSE Put(st2, "context_ids_by_agent", EmptyDict), LAMBDA st3 :
        [state |-> [st3 EXCEPT !["context_ids_by_agent"] =
                                   Put(@, key, Uuid(uuid_count + 1))],
         uuids |-> 1])))

\* lines 548-571: the session state with the active agent set, both id
\* dicts present and a context id stored under `key`; uuids: values drawn
SessionForSend(st, resolved_name, key) ==
    With(Put(st, "active_agent", resolved_name), LAMBDA st1 :
    With(IF "task_ids_by_agent" \in DOMAIN st1 THEN st1
         ELSE Put(st1, "task_ids_by_agent", EmptyDict), LAMBDA st2 :
    With(IF "context_ids_by_agent" \in DOMAIN st2 THEN st2
         ELSE Put(st2, "context_ids_by_agent", EmptyDict), LAMBDA st3 :
        IF key \in DOMAIN st3["context_ids_by_agent"]
        THEN [state |-> st3, uuids |-> 0]
        ELSE [state |-> [st3 EXCEPT !["context_ids_by_agent"] =
                                        Put(@, key, Uuid(uuid_count + 1))],
              uuids |-> 1])))

\* lines 573-580: the message id; drawn: uuid4 values drawn before it
MessageId(st, drawn) ==
    With(Get(st, "input_message_metadata", EmptyDict), LAMBDA meta :
        IF Truthy(Get(meta, "message_id", None))
        THEN [id |-> meta["message_id"], uuids |-> drawn]
        ELSE [id |-> Uuid(uuid_count + drawn + 1), uuids |-> drawn + 1])

\* lines 582-611: the outbound payload
Payload(task, message_id, client_info, task_id, context_id) ==
    With([role |-> "user", text |-> task, messageId |-> message_id],
         LAMBDA p0 :
    With(IF client_info # Nothing
         THEN Put(p0, "metadata", [client_agent_id |-> client_info.agent_id])
         ELSE p0, LAMBDA p1 :
    With(IF Truthy(task_id) THEN Put(p1, "taskId", task_id) ELSE p1,
         LAMBDA p2 :
        Put(p2, "contextId", context_id))))

\* Deliver without the isinstance checks of lines 624-630
DeliverStoresAnyResult(s, key, request, uuids) ==
    CASE request.reply.kind = "raise" ->
           [exc |-> "ConnectError", result |-> Nothing, state |-> s,
            uuids |-> uuids, sent |-> <<request>>]
      [] OTHER ->
           [exc |-> None, result |-> [task |-> request.reply.id],
            state |-> [s EXCEPT !["task_ids_by_agent"] =
                                    Put(@, key, request.reply.id)],
            uuids |-> uuids, sent |-> <<request>>]

\* Deliver sending the request once more after a response that is no Task
DeliverRetries(s, key, request, uuids) ==
    CASE request.reply.kind = "raise" ->
           [exc |-> "ConnectError", result |-> Nothing, state |-> s,
            uuids |-> uuids, sent |-> <<request>>]
      [] request.reply.kind \in {"error_response", "message"} ->
           [exc |-> None, result |-> Nothing, state |-> s,
            uuids |-> uuids, sent |-> <<request, request>>]
      [] request.reply.kind = "task" ->
           [exc |-> None, result |-> [task |-> request.reply.id],
            state |-> [s EXCEPT !["task_ids_by_agent"] =
                                    Put(@, key, request.reply.id)],
            uuids |-> uuids, sent |-> <<request>>]

\* lines 613-638: the outcome of delivering `request` from session s
Deliver(s, key, request, uuids) ==
    CASE request.reply.kind = "raise" ->
           [exc |-> "ConnectError", result |-> Nothing, state |-> s,
            uuids |-> uuids, sent |-> <<request>>]
      [] request.reply.kind \in {"error_response", "message"} ->
           [exc |-> None, result |-> Nothing, state |-> s,
            uuids |-> uuids, sent |-> <<request>>]
      [] request.reply.kind = "task" ->
           [exc |-> None, result |-> [task |-> request.reply.id],
            state |-> [s EXCEPT !["task_ids_by_agent"] =
                                    Put(@, key, request.reply.id)],
            uuids |-> uuids, sent |-> <<request>>]

\* send_message recording the requested name as active agent before it
\* resolves it
send_messageMarksActiveFirst(agent_name, task, st, reply) ==
    IF agent_name = NOT_A_STR
    THEN [exc |-> "AttributeError", result |-> Nothing, state |-> st,
          uuids |-> 0, sent |-> <<>>]
    ELSE
    With(_resolve_agent_name(agent_name), LAMBDA resolved_name :
    IF ~Truthy(resolved_name)
    THEN [exc |-> "ValueError", result |-> Nothing,
          state |-> Put(st, "active_agent", agent_name),
          uuids |-> 0, sent |-> <<>>]
    ELSE
    With(CorrelationKey(agent_name, resolved_name), LAMBDA key :
    With(SessionForSend(st, resolved_name, key), LAMBDA s :
    With(MessageId(st, s.uuids), LAMBDA m :
    With([agent |-> resolved_name,
          url |-> Lookup(remote_agent_connections, resolved_name),
          requested |-> agent_name,
          payload |-> Payload(task, m.id,
                              get_agent_by_domain(chain, ASSISTANT_DOMAIN),
                              Get(s.state["task_ids_by_agent"], key, None),
                              s.state["context_ids_by_agent"][key]),
          reply |-> reply], LAMBDA request :
        Deliver(s.state, key, request, m.uuids))))))

\* RoutingAgent.send_message(agent_name, task, state) when the remote agent
\* answers `reply`.  exc: the exception raised, or None; result: the value
\* returned; state: the session state afterwards; uuids: uuid4 values drawn;
\* sent: the requests delivered to the remote agent (none or one).
send_message(agent_name, task, st, reply) ==
    IF agent_name = NOT_A_STR
    THEN [exc |-> "AttributeError", result |-> Nothing, state |-> st,
          uuids |-> 0, sent |-> <<>>]
    ELSE
    With(_resolve_agent_name(agent_name), LAMBDA resolved_name :
    IF ~Truthy(resolved_name)
    THEN [exc |-> "ValueError", result |-> Nothing, state |-> st,
          uuids |-> 0, sent |-> <<>>]
    ELSE
    With(CorrelationKey(agent_name, resolved_name), LAMBDA key :
    With(SessionForSend(st, resolved_name, key), LAMBDA s :
    With(MessageId(st, s.uuids), LAMBDA m :
    With([agent |-> resolved_name,
          url |-> Lookup(remote_agent_connections, resolved_name),
          requested |-> agent_name,
          payload |-> Payload(task, m.id,
                              get_agent_by_domain(chain, ASSISTANT_DOMAIN),
                              Get(s.state["task_ids_by_agent"], key, None),
                              s.state["context_ids_by_agent"][key]),
          reply |-> reply], LAMBDA request :
        Deliver(s.state, key, request, m.uuids))))))

---------------------------------------------------------------------------
(* Feedback / authorization subsystem *)

\* the signing key _authorize_feedback passes to the adapter
AuthorizeSigningKey(is_reserve) ==
    LET variant == IF is_reserve THEN getenv("ERC8004_PRIVATE_KEY_RESERVE", None)
                   ELSE getenv("ERC8004_PRIVATE_KEY_FINDER", None)
    IN IF Truthy(variant) THEN variant ELSE getenv("ERC8004_PRIVATE_KEY", None)

\* host_agent/__main__.py:75, the key the assistant (the client of every
\* feedback authorization) registers and signs with in this process
assistant_pk ==
    IF Truthy(getenv("ERC8004_PRIVATE_KEY_ASSISTANT", None))
    THEN getenv("ERC8004_PRIVATE_KEY_ASSISTANT", None)
    ELSE getenv("ERC8004_PRIVATE_KEY", None)

\* the signing key submit_feedback passes to the adapter
FeedbackSigningKey(is_reserve) ==
    IF is_reserve THEN getenv("ERC8004_PRIVATE_KEY_RESERVE", None)
    ELSE getenv("ERC8004_PRIVATE_KEY_FINDER", None)

\* Account.from_key(os.getenv('ERC8004_PRIVATE_KEY_ASSISTANT')).address, or ""
AssistantKeyAddress ==
    IF Truthy(getenv("ERC8004_PRIVATE_KEY_ASSISTANT", None))
    THEN "0xAssistantKey" ELSE ""

\* auth_result.get('client_address') or client_info.get('address', '') or
\* the address derived from the assistant's key
ClientAddress(auth_result, client_info) ==
    IF Truthy(auth_result.client_address) THEN auth_result.client_address
    ELSE IF Truthy(client_info.address) THEN client_info.address
    ELSE AssistantKeyAddress

\* the authorization caches of the RoutingAgent, as one record
AuthCaches ==
    [ids |-> authorized_feedback_agent_ids,
     addr_by_id |-> authorized_feedback_agent_addr_by_id,
     auth_id_by_target_id |-> authorized_feedback_auth_id_by_target_id]

\* lines 388-407: the caches after a successful authorization of target_id
CacheAuthorization(target_id, auth_result, client_addr) ==
    [ids |-> authorized_feedback_agent_ids \cup {target_id},
     addr_by_id |->
         IF client_addr # ""
         THEN Put(authorized_feedback_agent_addr_by_id, target_id, client_addr)
         ELSE authorized_feedback_agent_addr_by_id,
     auth_id_by_target_id |->
         IF Truthy(auth_result.feedback_auth_id)
         THEN Put(authorized_feedback_auth_id_by_target_id, target_id,
                  auth_result.feedback_auth_id)
         ELSE authorized_feedback_auth_id_by_target_id]

\* lines 409-417: the dict _authorize_feedback returns on success
AuthorizeResult(client_id, target_id, auth_result) ==
    With([status |-> "ok", clientAgentId |-> client_id,
          targetAgentId |-> target_id, txHash |-> auth_result.tx_hash],
         LAMBDA r0 :
        IF Truthy(auth_result.feedback_auth_id)
        THEN Put(r0, "FeedbackAuthID", auth_result.feedback_auth_id)
        ELSE r0)

\* the domain by which a feedback target is looked up
TargetDomain(is_reserve) ==
    IF is_reserve THEN getenv("RESERVE_DOMAIN", RESERVE_DOMAIN)
    ELSE getenv("FINDER_DOMAIN", FINDER_DOMAIN)

\* 'reserve' in (self._resolve_agent_name(agent_name) or '').lower()
IsReserve(agent_name) ==
    With(_resolve_agent_name(agent_name), LAMBDA resolved :
        Truthy(resolved) /\ Contains("reserve", Lower(resolved)))

\* RoutingAgent._authorize_feedback.  exc: the exception raised, or None;
\* result: the dict returned; caches: the authorization caches afterwards;
\* auth_calls: the invocations of the authorization operation made.
_authorize_feedback(client_agent_name, target_agent_name) ==
    IF target_agent_name = NOT_A_STR
    THEN [exc |-> "AttributeError", result |-> Nothing, caches |-> AuthCaches,
          auth_calls |-> <<>>]
    ELSE
    With(IsReserve(target_agent_name), LAMBDA is_reserve :
    With(get_agent_by_domain(chain, TargetDomain(is_reserve)),
         LAMBDA target_info :
    With(get_agent_by_domain(chain, ASSISTANT_DOMAIN), LAMBDA client_info :
    IF target_info = Nothing
    THEN [exc |-> None,
          result |-> [status |-> "error",
                      message |-> "Could not resolve target agent"],
          caches |-> AuthCaches, auth_calls |-> <<>>]
    ELSE IF client_info = Nothing
    THEN [exc |-> None,
          result |-> [status |-> "error",
                      message |-> "Could not resolve client agent"],
          caches |-> AuthCaches, auth_calls |-> <<>>]
    ELSE
    With([client_agent_id |-> client_info.agent_id,
          server_agent_id |-> target_info.agent_id,
          signing_private_key |-> AuthorizeSigningKey(is_reserve)],
         LAMBDA call :
    With(authorize_feedback_from_client(chain, call.client_agent_id,
                                        call.server_agent_id,
                                        call.signing_private_key),
         LAMBDA auth_result :
    IF auth_result = Nothing
    THEN [exc |-> None,
          result |-> [status |-> "error",
                      message |-> "Authorization transaction failed."],
          caches |-> AuthCaches, auth_calls |-> <<call>>]
    ELSE [exc |-> None,
          result |-> AuthorizeResult(call.client_agent_id,
                                     call.server_agent_id, auth_result),
          caches |-> CacheAuthorization(
                         call.server_agent_id, auth_result,
                         ClientAddress(auth_result, client_info)),
          auth_calls |-> <<call>>])))))

Max(a, b) == IF a >= b THEN a ELSE b
Min(a, b) == IF a <= b THEN a ELSE b

\* a JSON number / a JSON string, as json.loads returns them
JInt(n) == [int |-> n]
JStr(t) == [str |-> t]

Digits == "0123456789"

IsDigit(c) == \E d \in 1..Len(Digits) : SubSeq(Digits, d, d) = c

DigitValue(c) == (CHOOSE d \in 1..Len(Digits) : SubSeq(Digits, d, d) = c) - 1

RECURSIVE DecimalValue(_)
\* the number a non-empty string of digits denotes
DecimalValue(t) ==
    IF t = "" THEN 0
    ELSE 10 * DecimalValue(SubSeq(t, 1, Len(t) - 1))
         + DigitValue(SubSeq(t, Len(t), Len(t)))

\* int(v) for an int, a str or None: [ok, value]; ok is FALSE when int()
\* raises (ValueError for a str that is no decimal integer, TypeError for
\* None)
int(v) ==
    IF "int" \in DOMAIN v THEN [ok |-> TRUE, value |-> v.int]
    ELSE IF "str" \notin DOMAIN v THEN [ok |-> FALSE, value |-> 0]
    ELSE With(Strip(v.str), LAMBDA t :
         With(IF t # "" /\ SubSeq(t, 1, 1) \in {"-", "+"}
              THEN SubSeq(t, 2, Len(t)) ELSE t, LAMBDA body :
         IF body = "" \/ \E i \in 1..Len(body) : ~IsDigit(SubSeq(body, i, i))
         THEN [ok |-> FALSE, value |-> 0]
         ELSE [ok |-> TRUE,
               value |-> IF SubSeq(t, 1, 1) = "-" THEN 0 - DecimalValue(body)
                         ELSE DecimalValue(body)]))

\* ClampRating without the lower limit: min(5, int(rating))
ClampRatingAboveOnly(rating) ==
    IF int(rating).ok THEN Min(5, int(rating).value) ELSE 5

\* lines 442-446: max(1, min(5, int(rating))), 5 when int(rating) raises
ClampRating(rating) ==
    IF int(rating).ok THEN Max(1, Min(5, int(rating).value)) ELSE 5

\* int(max(0, min(100, rating_int * 20)))
RatingPercent(rating_int) == Max(0, Min(100, rating_int * 20))

\* d.get(a) or d.get(b) or ''
FirstTruthy(d, a, b) ==
    IF a \in DOMAIN d THEN d[a] ELSE IF b \in DOMAIN d THEN d[b] ELSE ""

\* EnsureAuthorized that invokes the authorization a second time when the
\* first invocation returned nothing
EnsureAuthorizedRetries(agent_id, is_reserve) ==
    IF agent_id \in DOMAIN authorized_feedback_auth_id_by_target_id
    THEN [feedback_auth_id |->
              authorized_feedback_auth_id_by_target_id[agent_id],
          caches |-> AuthCaches, auth_calls |-> <<>>]
    ELSE
    With(get_agent_by_domain(chain, ASSISTANT_DOMAIN), LAMBDA client_info :
    IF client_info = Nothing
    THEN [feedback_auth_id |-> None, caches |-> AuthCaches,
          auth_calls |-> <<>>]
    ELSE
    With([client_agent_id |-> client_info.agent_id,
          server_agent_id |-> agent_id,
          signing_private_key |-> FeedbackSigningKey(is_reserve)],
         LAMBDA call :
    With(authorize_feedback_from_client(chain, call.client_agent_id,
                                        call.server_agent_id,
                                        call.signing_private_key),
         LAMBDA auth_res :
    IF auth_res # Nothing /\ Truthy(auth_res.feedback_auth_id)
    THEN [feedback_auth_id |-> auth_res.feedback_auth_id,
          caches |-> CacheAuthorization(agent_id, auth_res,
                                        ClientAddress(auth_res, client_info)),
          auth_calls |-> <<call>>]
    ELSE [feedback_auth_id |-> None, caches |-> AuthCaches,
          auth_calls |-> IF auth_res = Nothing THEN <<call, call>>
                         ELSE <<call>>])))

\* lines 448-487: the authorization step of submit_feedback for target
\* agent_id.  feedback_auth_id: the id found or obtained, or None; caches:
\* the caches afterwards; auth_calls: the invocations made.
EnsureAuthorized(agent_id, is_reserve) ==
    IF agent_id \in DOMAIN authorized_feedback_auth_id_by_target_id
    THEN [feedback_auth_id |->
              authorized_feedback_auth_id_by_target_id[agent_id],
          caches |-> AuthCaches, auth_calls |-> <<>>]
    ELSE
    With(get_agent_by_domain(chain, ASSISTANT_DOMAIN), LAMBDA client_info :
    IF client_info = Nothing
    THEN [feedback_auth_id |-> None, caches |-> AuthCaches,
          auth_calls |-> <<>>]
    ELSE
    With([client_agent_id |-> client_info.agent_id,
          server_agent_id |-> agent_id,
          signing_private_key |-> FeedbackSigningKey(is_reserve)],
         LAMBDA call :
    With(authorize_feedback_from_client(chain, call.client_agent_id,
                                        call.server_agent_id,
                                        call.signing_private_key),
         LAMBDA auth_res :
    IF auth_res # Nothing /\ Truthy(auth_res.feedback_auth_id)
    THEN [feedback_auth_id |-> auth_res.feedback_auth_id,
          caches |-> CacheAuthorization(agent_id, auth_res,
                                        ClientAddress(auth_res, client_info)),
          auth_calls |-> <<call>>]
    ELSE [feedback_auth_id |-> None, caches |-> AuthCaches,
          auth_calls |-> <<call>>])))

\* lines 493-498: the FeedbackAuthID of the record
RecordAuthId(feedback_auth_id, agent_id, caches) ==
    IF ~Truthy(feedback_auth_id) /\ agent_id \in caches.ids
       /\ Get(caches.addr_by_id, agent_id, "") # ""
    THEN "eip155:" \o getenv("ERC8004_CHAIN_ID", "11155111") \o ":"
         \o caches.addr_by_id[agent_id]
    ELSE feedback_auth_id

\* lines 499-519: the record appended to self.feedback_records
FeedbackRecord(agent_name, resolved_name, is_reserve, domain, rating_int, comment, st, feedback_auth_id) ==
    With([FeedbackAuthID |-> feedback_auth_id,
          AgentSkillId |-> IF is_reserve THEN "reserve:v1" ELSE "finder:v1",
          TaskId |-> FirstTruthy(Get(st, "task_ids_by_agent", EmptyDict),
                                 agent_name, resolved_name),
          contextId |-> FirstTruthy(Get(st, "context_ids_by_agent", EmptyDict),
                                    agent_name, resolved_name),
          Rating |-> RatingPercent(rating_int),
          Domain |-> domain,
          Data |-> [notes |-> comment]], LAMBDA r0 :
    With(IF Truthy(Get(st, "payment_tx_hash", None))
         THEN st["payment_tx_hash"]
         ELSE getenv("FEEDBACK_PAYMENT_TX", None), LAMBDA proof_tx :
        IF Truthy(proof_tx)
        THEN Put(r0, "ProofOfPayment", [txHash |-> proof_tx])
        ELSE r0))

\* submit_feedback with the append of line 520 lost to the `except
\* Exception: pass` of 521-522: the record is built but never appended
submit_feedbackDropsRecord(agent_name, rating, comment, st) ==
    IF agent_name = NOT_A_STR
    THEN [exc |-> "AttributeError", result |-> Nothing, caches |-> AuthCaches,
          records |-> feedback_records, auth_calls |-> <<>>]
    ELSE
    With(_resolve_agent_name(agent_name), LAMBDA resolved :
    With(IF Truthy(resolved) THEN resolved ELSE "", LAMBDA resolved_name :
    With(Contains("reserve", Lower(resolved_name)), LAMBDA is_reserve :
    With(TargetDomain(is_reserve), LAMBDA domain :
    With(get_agent_by_domain(chain, domain), LAMBDA info :
    IF info = Nothing
    THEN [exc |-> None,
          result |-> [status |-> "error",
                      message |-> "Could not resolve agent by domain"],
          caches |-> AuthCaches, records |-> feedback_records,
          auth_calls |-> <<>>]
    ELSE
    With(ClampRating(rating), LAMBDA rating_int :
    With(EnsureAuthorized(info.agent_id, is_reserve), LAMBDA auth :
        [exc |-> None,
         result |-> [status |-> "ok", agentId |-> info.agent_id,
                     domain |-> domain, rating |-> rating_int,
                     comment |-> comment],
         caches |-> auth.caches,
         records |-> feedback_records,
         auth_calls |-> auth.auth_calls])))))))

\* submit_feedback raising for a name that resolves to no registered agent
submit_feedbackRejectsUnresolved(agent_name, rating, comment, st) ==
    IF agent_name = NOT_A_STR
    THEN [exc |-> "AttributeError", result |-> Nothing, caches |-> AuthCaches,
          records |-> feedback_records, auth_calls |-> <<>>]
    ELSE
    With(_resolve_agent_name(agent_name), LAMBDA resolved :
    IF ~Truthy(resolved)
    THEN [exc |-> "AgentNotFound", result |-> Nothing, caches |-> AuthCaches,
          records |-> feedback_records, auth_calls |-> <<>>]
    ELSE
    With(IF Truthy(resolved) THEN resolved ELSE "", LAMBDA resolved_name :
    With(Contains("reserve", Lower(resolved_name)), LAMBDA is_reserve :
    With(TargetDomain(is_reserve), LAMBDA domain :
    With(get_agent_by_domain(chain, domain), LAMBDA info :
    IF info = Nothing
    THEN [exc |-> None,
          result |-> [status |-> "error",
                      message |-> "Could not resolve agent by domain"],
          caches |-> AuthCaches, records |-> feedback_records,
          auth_calls |-> <<>>]
    ELSE
    With(ClampRating(rating), LAMBDA rating_int :
    With(EnsureAuthorized(info.agent_id, is_reserve), LAMBDA auth :
        [exc |-> None,
         result |-> [status |-> "ok", agentId |-> info.agent_id,
                     domain |-> domain, rating |-> rating_int,
                     comment |-> comment],
         caches |-> auth.caches,
         records |->
             Append(feedback_records,
                    FeedbackRecord(agent_name, resolved_name, is_reserve,
                                   domain, rating_int, comment, st,
                                   RecordAuthId(auth.feedback_auth_id,
                                                info.agent_id, auth.caches))),
         auth_calls |-> auth.auth_calls])))))))

\* RoutingAgent.submit_feedback.  exc: the exception raised, or None; result:
\* the dict returned; caches, records: the authorization caches and
\* self.feedback_records afterwards; auth_calls: the invocations of the
\* authorization operation made.
submit_feedback(agent_name, rating, comment, st) ==
    IF agent_name = NOT_A_STR
    THEN [exc |-> "AttributeError", result |-> Nothing, caches |-> AuthCaches,
          records |-> feedback_records, auth_calls |-> <<>>]
    ELSE
    With(_resolve_agent_name(agent_name), LAMBDA resolved :
    With(IF Truthy(resolved) THEN resolved ELSE "", LAMBDA resolved_name :
    With(Contains("reserve", Lower(resolved_name)), LAMBDA is_reserve :
    With(TargetDomain(is_reserve), LAMBDA domain :
    With(get_agent_by_domain(chain, domain), LAMBDA info :
    IF info = Nothing
    THEN [exc |-> None,
          result |-> [status |-> "error",
                      message |-> "Could not resolve agent by domain"],
          caches |-> AuthCaches, records |-> feedback_records,
          auth_calls |-> <<>>]
    ELSE
    With(ClampRating(rating), LAMBDA rating_int :
    With(EnsureAuthorized(info.agent_id, is_reserve), LAMBDA auth :
        [exc |-> None,
         result |-> [status |-> "ok", agentId |-> info.agent_id,
                     domain |-> domain, rating |-> rating_int,
                     comment |-> comment],
         caches |-> auth.caches,
         records |->
             Append(feedback_records,
                    FeedbackRecord(agent_name, resolved_name, is_reserve,
                                   domain, rating_int, comment, st,
                                   RecordAuthId(auth.feedback_auth_id,
                                                info.agent_id, auth.caches))),
         auth_calls |-> auth.auth_calls])))))))

---------------------------------------------------------------------------
(* The routing loop: RoutingAgent.handle *)

max_steps == 6

\* json.loads on the argument texts the provider of this model produces:
\* ok = FALSE for json.JSONDecodeError, else the value (a dict or a list)
json_loads(text) ==
    CASE text = "{}" ->
           [ok |-> TRUE, value |-> [type |-> "dict", items |-> EmptyDict]]
      [] text = "{\"agent_name\": \"Airbnb Agent - Finder\", \"task\": \"find a room in LA\"}" ->
           [ok |-> TRUE,
            value |-> [type |-> "dict",
                       items |-> [agent_name |-> FINDER,
                                  task |-> "find a room in LA"]]]
      [] text = "{\"agent_name\": \"nonexistent\", \"task\": \"find a room in LA\"}" ->
           [ok |-> TRUE,
            value |-> [type |-> "dict",
                       items |-> [agent_name |-> "nonexistent",
                                  task |-> "find a room in LA"]]]
      [] text = "{\"agent_name\": \"Airbnb Agent - Finder\", \"rating\": 4, \"comment\": \"great\"}" ->
           [ok |-> TRUE,
            value |-> [type |-> "dict",
                       items |-> [agent_name |-> FINDER, rating |-> JInt(4),
                                  comment |-> "great"]]]
      [] text = "{\"agent_name\": 42, \"rating\": 4, \"comment\": \"great\"}" ->
           [ok |-> TRUE,
            value |-> [type |-> "dict",
                       items |-> [agent_name |-> NOT_A_STR, rating |-> JInt(4),
                                  comment |-> "great"]]]
      [] text = "{\"client_agent_name\": \"assistant\", \"target_agent_name\": \"Airbnb Agent - Finder\"}" ->
           [ok |-> TRUE,
            value |-> [type |-> "dict",
                       items |-> [client_agent_name |-> "assistant",
                                  target_agent_name |-> FINDER]]]
      [] text = "[1]" ->
           [ok |-> TRUE, value |-> [type |-> "list", items |-> <<1>>]]
      [] OTHER -> [ok |-> FALSE, value |-> Nothing]

\* ParseArguments with `except json.JSONDecodeError: args = arguments`
ParseArgumentsKeepsText(arguments) ==
    LET parsed == json_loads(IF Truthy(arguments) THEN arguments ELSE "{}")
    IN IF parsed.ok THEN parsed.value
       ELSE [type |-> "str", items |-> arguments]

\* try: args = json.loads(tc.function.arguments or '{}')
\* except json.JSONDecodeError: args = {}
ParseArguments(arguments) ==
    LET parsed == json_loads(IF Truthy(arguments) THEN arguments ELSE "{}")
    IN IF parsed.ok THEN parsed.value
       ELSE [type |-> "dict", items |-> EmptyDict]

\* result.model_dump(exclude_none=True) if hasattr(result, 'model_dump')
\* else str(result)
ResultJson(result) ==
    IF result = Nothing THEN [str |-> "None"] ELSE [model_dump |-> result]

\* json.dumps(value): the JSON text of value
json_dumps(value) == [json |-> value]

\* a tool branch written as `except ConnectError`
CaughtConnectErrorOnly(e) == e = "ConnectError"

\* the exceptions a tool branch of handle catches (`except Exception`)
Caught(e) == e # None

\* ToolMessage tagging every result with the id of the turn's first call
ToolMessageFirstCallId(tc, content) ==
    [role |-> "tool", tool_call_id |-> tool_calls[1].id, name |-> tc.name,
     content |-> content]

\* the tool message appended to the transcript for tool call tc
ToolMessage(tc, content) ==
    [role |-> "tool", tool_call_id |-> tc.id, name |-> tc.name,
     content |-> content]

\* what a tool branch leaves alone
Unchanged ==
    [state |-> state, uuids |-> 0, sent |-> <<>>, caches |-> AuthCaches,
     records |-> feedback_records, auth_calls |-> <<>>]

\* the f-string of an except branch: prefix, exception type, allowed agents
ErrorMsg(prefix, e, allowed) ==
    [error |-> prefix, type |-> e, allowed |-> allowed]

\* Outcome without the append of the except branches (lines 768-776,
\* 791-798, 812-820): a caught exception leaves no tool message
OutcomeDropsErrorResult(tc, effect, e, content, shown) ==
    IF e # None /\ ~Caught(e)
    THEN [exc |-> e, appended |-> <<>>, yielded |-> <<>>] @@ effect
    ELSE [exc |-> None,
          appended |-> IF e = None THEN <<ToolMessage(tc, content)>> ELSE <<>>,
          yielded |-> <<[type |-> "tool_response", name |-> tc.name,
                         content |-> shown]>>] @@ effect

\* the try/except of a tool branch: exception e of the dispatched operation
\* (None when it returned) with the message content and the event content
Outcome(tc, effect, e, content, shown) ==
    IF e # None /\ ~Caught(e)
    THEN [exc |-> e, appended |-> <<>>, yielded |-> <<>>] @@ effect
    ELSE [exc |-> None,
          appended |-> <<ToolMessage(tc, content)>>,
          yielded |-> <<[type |-> "tool_response", name |-> tc.name,
                         content |-> shown]>>] @@ effect

\* lines 755-778
DispatchSendMessage(tc, a) ==
    With(send_message(Get(a.items, "agent_name", None),
                      Get(a.items, "task", ""), state, remote), LAMBDA r :
    With([Unchanged EXCEPT !.state = r.state, !.uuids = r.uuids,
                           !.sent = r.sent], LAMBDA effect :
        IF r.exc = None
        THEN Outcome(tc, effect, None, json_dumps(ResultJson(r.result)),
                     ResultJson(r.result))
        ELSE Outcome(tc, effect, r.exc,
                     ErrorMsg("Routing error", r.exc, allowed_agents),
                     [error |-> ErrorMsg("Routing error", r.exc,
                                         allowed_agents)])))

\* lines 779-800
DispatchLeaveFeedback(tc, a) ==
    With(submit_feedback(Get(a.items, "agent_name", None),
                         Get(a.items, "rating", JInt(5)),
                         Get(a.items, "comment", ""), state), LAMBDA r :
    With([Unchanged EXCEPT !.caches = r.caches, !.records = r.records,
                           !.auth_calls = r.auth_calls], LAMBDA effect :
        IF r.exc = None
        THEN Outcome(tc, effect, None, json_dumps(r.result), r.result)
        ELSE Outcome(tc, effect, r.exc,
                     ErrorMsg("Feedback error", r.exc, <<>>),
                     [error |-> ErrorMsg("Feedback error", r.exc, <<>>)])))

\* lines 801-821
DispatchAuthorizeFeedback(tc, a) ==
    With(_authorize_feedback(Get(a.items, "client_agent_name", None),
                             Get(a.items, "target_agent_name", None)),
         LAMBDA r :
    With([Unchanged EXCEPT !.caches = r.caches,
                           !.auth_calls = r.auth_calls], LAMBDA effect :
        IF r.exc = None
        THEN Outcome(tc, effect, None, json_dumps(r.result), r.result)
        ELSE Outcome(tc, effect, r.exc,
                     ErrorMsg("Authorize feedback error", r.exc, <<>>),
                     [error |-> ErrorMsg("Authorize feedback error", r.exc,
                                         <<>>)])))

\* The outcome of dispatching tool call tc with parsed arguments a, lines
\* 755-829.  exc: the exception that leaves handle, or None; appended: the
\* tool messages appended to the transcript; yielded: the events yielded;
\* and the state, caches, records, calls the dispatched operation leaves.
Dispatch(tc, a) ==
    IF tc.name \in {"send_message", "leave_feedback", "authorize_feedback"}
       /\ a.type # "dict"
    THEN \* args.get(...) on a value that is not a dict, outside the try
         [exc |-> "AttributeError", appended |-> <<>>, yielded |-> <<>>]
             @@ Unchanged
    ELSE CASE tc.name = "send_message" -> DispatchSendMessage(tc, a)
           [] tc.name = "leave_feedback" -> DispatchLeaveFeedback(tc, a)
           [] tc.name = "authorize_feedback" -> DispatchAuthorizeFeedback(tc, a)
           [] OTHER -> Outcome(tc, Unchanged, None,
                               [unknown_tool |-> tc.name],
                               [error |-> "Unknown tool"])

---------------------------------------------------------------------------
(* The export endpoint of the host: GET /.well-known/feedback.json *)

\* the content of the message of lines 65-68
ERROR_MESSAGE == "An error occurred while processing your request. Please check the server logs for details."

\* gr.ChatMessage(role='assistant', content=...)
ChatMessage(content) == [role |-> "assistant", content |-> content]

\* `except Exception` catches e: every exception the agent raises is an
\* Exception
IsException(e) ==
    e \in {"ValueError", "APIError", "AttributeError", "ConnectError"}

\* the message get_response_from_agent yields for one event of handle
EventMessage(event) ==
    CASE event.type = "tool_call" ->
            ChatMessage([heading |-> "Tool Call", name |-> event.name,
                         body |-> event.content])
      [] event.type = "tool_response" ->
            ChatMessage([heading |-> "Tool Response from",
                         name |-> event.name, body |-> event.content])
      [] event.type = "final" -> ChatMessage([text |-> event.content])

RECURSIVE EventMessages(_)
\* lines 45-61: the messages yielded for the events evs, up to the break
\* after a final event
EventMessages(evs) ==
    IF evs = <<>> THEN <<>>
    ELSE IF Head(evs).type = "final" THEN <<EventMessage(Head(evs))>>
    ELSE <<EventMessage(Head(evs))>> \o EventMessages(Tail(evs))

\* get_response_from_agent whose error message quotes the exception
get_response_from_agentWithDetail(evs, raised) ==
    [stream |-> EventMessages(evs)
                \o (IF raised # None /\ IsException(raised)
                    THEN <<ChatMessage([text |-> ERROR_MESSAGE \o " "
                                                 \o raised])>>
                    ELSE <<>>),
     exc |-> IF raised # None /\ ~IsException(raised) THEN raised ELSE None]

\* get_response_from_agent when handle yielded evs and then raised
\* `raised`, or returned (None).  stream: the messages yielded to the
\* chat; exc: the exception that leaves the generator, or None
get_response_from_agent(evs, raised) ==
    [stream |-> EventMessages(evs)
                \o (IF raised # None /\ IsException(raised)
                    THEN <<ChatMessage([text |-> ERROR_MESSAGE])>>
                    ELSE <<>>),
     exc |-> IF raised # None /\ ~IsException(raised) THEN raised ELSE None]

\* a list as the JSON array the endpoint's response carries: the elements
\* serialized one after the other
RECURSIVE JsonArray(_)
JsonArray(list) ==
    IF list = <<>> THEN <<>>
    ELSE <<json_dumps(Head(list))>> \o JsonArray(Tail(list))

\* feedback_json answering with the newest record first
feedback_jsonNewestFirst ==
    JsonArray([i \in 1..Len(feedback_records) |->
                  feedback_records[Len(feedback_records) + 1 - i]])

\* host_agent/__main__.py: feedback_json returns routing_agent.feedback_records
feedback_json == JsonArray(feedback_records)

---------------------------------------------------------------------------
(* The environment of a run *)

\* most tool calls in one LLM response
MaxToolCalls == 2

\* the tool calls (function name, arguments text) the provider may request
ToolCallSet ==
    {[name |-> "send_message",
      arguments |-> "{\"agent_name\": \"Airbnb Agent - Finder\", \"task\": \"find a room in LA\"}"],
     [name |-> "send_message",
      arguments |-> "{\"agent_name\": \"nonexistent\", \"task\": \"find a room in LA\"}"],
     [name |-> "send_message", arguments |-> "{\"agent_name\": "],
     [name |-> "send_message", arguments |-> "[1]"],
     [name |-> "leave_feedback",
      arguments |-> "{\"agent_name\": \"Airbnb Agent - Finder\", \"rating\": 4, \"comment\": \"great\"}"],
     [name |-> "leave_feedback",
      arguments |-> "{\"agent_name\": 42, \"rating\": 4, \"comment\": \"great\"}"],
     [name |-> "leave_feedback", arguments |-> "rating: 4"],
     [name |-> "authorize_feedback",
      arguments |-> "{\"client_agent_name\": \"assistant\", \"target_agent_name\": \"Airbnb Agent - Finder\"}"],
     [name |-> "book_flight", arguments |-> "[1]"]}

\* the tool-requesting responses of a provider: up to MaxToolCalls calls
ToolCallLists ==
    UNION {[1..n -> ToolCallSet] : n \in 1..MaxToolCalls}

\* assistant_msg.content of a response: None or a text
Contents == {None, "Here is what I found."}

\* replies of a remote agent to message/send: a Task, a JSON-RPC error
\* response, a Message result, or the transport raising
Replies ==
    {[kind |-> "task", id |-> "task-1"], [kind |-> "task", id |-> "task-2"],
     [kind |-> "error_response", id |-> None],
     [kind |-> "message", id |-> None],
     [kind |-> "raise", id |-> None]}

\* identity registry: every agent registered / adapter without a registry
LiveChain ==
    [enabled |-> TRUE,
     identities |->
         (FINDER_DOMAIN :> [agent_id |-> 1, address |-> "0xFinder"]) @@
         (RESERVE_DOMAIN :> [agent_id |-> 2, address |-> "0xReserve"]) @@
         (ASSISTANT_DOMAIN :> [agent_id |-> 3, address |-> "0xAssistant"]),
     authorization |-> [tx_hash |-> "0xtx", feedback_auth_id |-> "auth-1",
                        client_address |-> "0xAssistant"]]

NoChain ==
    [enabled |-> FALSE, identities |-> EmptyDict, authorization |-> Nothing]

\* os.environ with every key of the deployment set
FullEnviron ==
    ("OPENAI_API_KEY" :> "sk-test") @@
    ("ERC8004_PRIVATE_KEY_FINDER" :> "pk-finder") @@
    ("ERC8004_PRIVATE_KEY_RESERVE" :> "pk-reserve") @@
    ("ERC8004_PRIVATE_KEY_ASSISTANT" :> "pk-assistant")

\* the configured addresses (_get_initialized_routing_agent_sync)
ConfiguredAddresses == <<FINDER_URL, RESERVE_URL, WEATHER_URL>>

\* which URLs answer a card fetch: all of the deployment, the rewritten
\* ones only (*.localhost does not resolve), or none
Networks ==
    {{FINDER_URL, RESERVE_URL, WEATHER_URL},
     {"http://localhost:10002/finder", "http://localhost:10002/reserve",
      WEATHER_URL},
     {}}

DefaultWorld ==
    [net |-> {FINDER_URL, RESERVE_URL, WEATHER_URL},
     remote |-> [kind |-> "task", id |-> "task-1"],
     chain |-> LiveChain,
     environ |-> FullEnviron,
     content |-> None]

\* the worlds of the routing-loop runs: the default one, and each one that
\* differs from it in one respect
Worlds ==
    {[DefaultWorld EXCEPT !.net = n] : n \in Networks}
    \cup {[DefaultWorld EXCEPT !.remote = r] : r \in Replies}
    \cup {[DefaultWorld EXCEPT !.chain = NoChain]}
    \cup {[DefaultWorld EXCEPT !.environ =
               [k \in DOMAIN FullEnviron \ {"OPENAI_API_KEY"} |-> FullEnviron[k]]]}
    \cup {[DefaultWorld EXCEPT !.content = c] : c \in Contents}

---------------------------------------------------------------------------
(* Specification of one handle call *)

\* the RoutingAgent after RoutingAgent.create(addresses) when the URLs of
\* `net` answer, before any request
AgentInit(addresses, net) ==
    \E r \in {_async_init_components(addresses, net)} :
       /\ remote_agent_connections = r.conns
       /\ cards = r.cards
       /\ fetches = r.fetches
       /\ remote_agent_addresses = addresses
       /\ feedback_records = <<>>
       /\ authorized_feedback_agent_ids = {}
       /\ authorized_feedback_agent_addr_by_id = EmptyDict
       /\ authorized_feedback_auth_id_by_target_id = EmptyDict

HandleInit ==
    /\ pc = "start"
    /\ step = 0
    /\ llm_calls = 0
    /\ allowed_agents = <<>>
    /\ messages = <<>>
    /\ tool_calls = <<>>
    /\ tc_index = 0
    /\ args = Nothing
    /\ final_text = ""
    /\ events = <<>>
    /\ exc = None
    /\ assistant_msg = Nothing

Init ==
    /\ \E w \in Worlds :
          /\ AgentInit(ConfiguredAddresses, w.net)
          /\ remote = w.remote
          /\ chain = w.chain
          /\ environ = w.environ
          /\ \E calls \in ToolCallLists :
                provider = [content |-> w.content, tool_calls |-> calls]
    /\ HandleInit
    /\ state = EmptyDict      \* get_response_from_agent: state = {}
    /\ uuid_count = 0
    /\ sent = <<>>
    /\ auth_calls = <<>>
    /\ ops = 0
    /\ tasks = <<>>
    /\ _active_sessions = {}
    /\ _sessions = EmptyDict
    /\ op_log = <<>>

\* RoutingAgent._build_system_prompt over registry r and session state st:
\* the parts of the prompt text that vary
_build_system_prompt(r, st) ==
    [available_agents |-> Keys(r.cards),
     agent_names |-> Keys(r.conns),
     active |-> _get_active_agent_name(st)]

\* lines 645-721: ensure_session_state, _refresh_cards_if_needed,
\* _openai_client, the tool schemas and the first two transcript entries
HandleStart(user_text) ==
    /\ pc = "start"
    /\ \E net \in Networks :
       \E s1 \in {ensure_session_state(state)} :
       \E r \in {_refresh_cards_if_needed(
                     [conns |-> remote_agent_connections, cards |-> cards,
                      fetches |-> fetches],
                     remote_agent_addresses, net)} :
       \E system_prompt \in {_build_system_prompt(r, s1.state)} :
             /\ state' = s1.state
             /\ uuid_count' = uuid_count + s1.uuids
             /\ remote_agent_connections' = r.conns
             /\ cards' = r.cards
             /\ fetches' = r.fetches
             /\ IF Truthy(getenv("OPENAI_API_KEY", None))
                THEN /\ allowed_agents' = Keys(r.conns)
                     /\ messages' = <<[role |-> "system", content |-> system_prompt],
                                      [role |-> "user", content |-> user_text]>>
                     /\ pc' = "llm"
                     /\ exc' = None
                ELSE /\ pc' = "raised"
                     /\ exc' = "ValueError"
                     /\ UNCHANGED <<allowed_agents, messages>>
    /\ UNCHANGED <<remote_agent_addresses, feedback_records,
                   authorized_feedback_agent_ids,
                   authorized_feedback_agent_addr_by_id,
                   authorized_feedback_auth_id_by_target_id, step, llm_calls,
                   tool_calls, tc_index, args, final_text, events,
                   assistant_msg, provider, sent, auth_calls, remote, chain,
                   environ, ops, op_log, tasks,
                   _active_sessions, _sessions>>

\* the position after the body of one loop iteration: the next iteration
\* of `for _ in range(max_steps)`, or the code after the loop
LoopHead(n) == IF n < max_steps THEN "llm" ELSE "final"

\* OnResponse taking the text of a tool-requesting response as final text
OnResponseTextOfToolTurn(content, calls) ==
    IF calls = <<>>
    THEN [final_text |-> IF Truthy(content) THEN content ELSE "",
          pc |-> "final", messages |-> messages, tool_calls |-> <<>>]
    ELSE [final_text |-> IF Truthy(content) THEN content ELSE "",
          pc |-> "tool_call",
          messages |-> Append(messages,
                              [role |-> "assistant",
                               content |-> IF Truthy(content) THEN content ELSE "",
                               tool_calls |-> calls]),
          tool_calls |-> calls]

\* OnResponse without the assignment of line 737
OnResponseKeepsText(content, calls) ==
    IF calls = <<>>
    THEN [final_text |-> final_text, pc |-> "final", messages |-> messages,
          tool_calls |-> <<>>]
    ELSE [final_text |-> final_text, pc |-> "tool_call",
          messages |-> Append(messages,
                              [role |-> "assistant",
                               content |-> IF Truthy(content) THEN content ELSE "",
                               tool_calls |-> calls]),
          tool_calls |-> calls]

\* what handle does with an LLM response that has no tool calls (736-738)
\* or has some (740-746): [final_text, pc, messages, tool_calls]
OnResponse(content, calls) ==
    IF calls = <<>>
    THEN [final_text |-> IF Truthy(content) THEN content ELSE "",
          pc |-> "final", messages |-> messages, tool_calls |-> <<>>]
    ELSE [final_text |-> final_text, pc |-> "tool_call",
          messages |-> Append(messages,
                              [role |-> "assistant",
                               content |-> IF Truthy(content) THEN content ELSE "",
                               tool_calls |-> calls]),
          tool_calls |-> calls]

\* lines 726-744, the provider answering with `content` and `calls`
LLMResponds(content, calls) ==
    /\ pc = "llm"
    /\ \E r \in {OnResponse(content, calls)} :
          /\ final_text' = r.final_text
          /\ pc' = r.pc
          /\ messages' = r.messages
          /\ tool_calls' = r.tool_calls
          /\ tc_index' = IF calls = <<>> THEN tc_index ELSE 1
    /\ assistant_msg' = [content |-> content, tool_calls |-> calls]
    /\ step' = step + 1
    /\ llm_calls' = llm_calls + 1
    /\ UNCHANGED <<agent_vars, state, uuid_count, allowed_agents, args, events,
                   exc, provider, sent, auth_calls, fetches, remote, chain,
                   environ, ops, op_log, tasks,
                   _active_sessions, _sessions>>

\* the provider answers without tool calls
LLMAnswers == \E content \in Contents : LLMResponds(content, <<>>)

\* the provider requests tools; the call ids are fresh in every response
LLMRequestsTools ==
    LLMResponds(provider.content,
                [k \in 1..Len(provider.tool_calls) |->
                    [id |-> <<step + 1, k>>,
                     name |-> provider.tool_calls[k].name,
                     arguments |-> provider.tool_calls[k].arguments]])

\* line 726, client.chat.completions.create raising
LLMRaises ==
    /\ pc = "llm"
    /\ pc' = "raised"
    /\ exc' = "APIError"
    /\ step' = step + 1
    /\ llm_calls' = llm_calls + 1
    /\ UNCHANGED <<agent_vars, state, uuid_count, allowed_agents, messages,
                   tool_calls, tc_index, args, final_text, events,
                   assistant_msg, provider, sent, auth_calls, fetches, remote,
                   chain, environ, ops, op_log, tasks,
                   _active_sessions, _sessions>>

\* lines 747-753: parse the arguments and yield the tool_call event
YieldToolCall ==
    /\ pc = "tool_call"
    /\ \E tc \in {tool_calls[tc_index]} :
          /\ args' = ParseArguments(tc.arguments)
          /\ events' = Append(events, [type |-> "tool_call", name |-> tc.name,
                                       content |-> args'])
    /\ pc' = "dispatch"
    /\ UNCHANGED <<agent_vars, state, uuid_count, step, llm_calls,
                   allowed_agents, messages, tool_calls, tc_index, final_text,
                   exc, assistant_msg, provider, sent, auth_calls, fetches,
                   remote, chain, environ, ops, op_log, tasks,
                   _active_sessions, _sessions>>

\* lines 755-829: run the tool, append its result, yield the tool_response
ExecuteTool ==
    /\ pc = "dispatch"
    /\ \E d \in {Dispatch(tool_calls[tc_index], args)} :
          /\ state' = d.state
          /\ uuid_count' = uuid_count + d.uuids
          /\ sent' = sent \o d.sent
          /\ authorized_feedback_agent_ids' = d.caches.ids
          /\ authorized_feedback_agent_addr_by_id' = d.caches.addr_by_id
          /\ authorized_feedback_auth_id_by_target_id' =
                 d.caches.auth_id_by_target_id
          /\ feedback_records' = d.records
          /\ auth_calls' = auth_calls \o d.auth_calls
          /\ messages' = messages \o d.appended
          /\ events' = events \o d.yielded
          /\ exc' = d.exc
          /\ IF d.exc # None
             THEN pc' = "raised" /\ tc_index' = tc_index
             ELSE IF tc_index < Len(tool_calls)
             THEN pc' = "tool_call" /\ tc_index' = tc_index + 1
             ELSE pc' = LoopHead(step) /\ tc_index' = tc_index
    /\ UNCHANGED <<remote_agent_connections, cards, remote_agent_addresses,
                   step, llm_calls, allowed_agents, tool_calls, args,
                   final_text, assistant_msg, provider, fetches, remote, chain,
                   environ, ops, op_log, tasks,
                   _active_sessions, _sessions>>

\* line 831
YieldFinal ==
    /\ pc = "final"
    /\ events' = Append(events, [type |-> "final", content |-> final_text])
    /\ pc' = "done"
    /\ UNCHANGED <<agent_vars, state, uuid_count, step, llm_calls,
                   allowed_agents, messages, tool_calls, tc_index, args,
                   final_text, exc, assistant_msg, provider, sent, auth_calls,
                   fetches, remote, chain, environ, ops, op_log, tasks,
                   _active_sessions, _sessions>>

Next ==
    \/ HandleStart("find a room in LA")
    \/ LLMAnswers
    \/ LLMRequestsTools
    \/ LLMRaises
    \/ YieldToolCall
    \/ ExecuteTool
    \/ YieldFinal

Spec == Init /\ [][Next]_vars

---------------------------------------------------------------------------
(* Specification of a session: operations on one session state *)

\* most operations in one session
MaxSends == 3

\* the agent_name arguments of the session's callers
SendNames == {FINDER, "finder", WEATHER, "hotel"}

\* a constructed agent with every card fetched and an empty session state
SendInit ==
    /\ AgentInit(ConfiguredAddresses, {FINDER_URL, RESERVE_URL, WEATHER_URL})
    /\ HandleInit
    /\ \E c \in {LiveChain, NoChain} : chain = c
    /\ environ = FullEnviron
    /\ remote = Nothing
    /\ provider = Nothing
    /\ state = EmptyDict
    /\ uuid_count = 0
    /\ sent = <<>>
    /\ auth_calls = <<>>
    /\ ops = 0
    /\ tasks = <<>>
    /\ _active_sessions = {}
    /\ _sessions = EmptyDict
    /\ op_log = <<>>

\* one call send_message(agent_name, task, state) answered with `reply`
SendMessage(agent_name, task, reply) ==
    /\ ops < MaxSends
    /\ \E r \in {send_message(agent_name, task, state, reply)} :
          /\ state' = r.state
          /\ uuid_count' = uuid_count + r.uuids
          /\ sent' = sent \o r.sent
          /\ exc' = r.exc
    /\ remote' = reply
    /\ ops' = ops + 1
    /\ UNCHANGED <<agent_vars, pc, step, llm_calls, allowed_agents, messages,
                   tool_calls, tc_index, args, final_text, events,
                   assistant_msg, provider, auth_calls, fetches, chain,
                   environ, op_log, tasks,
                   _active_sessions, _sessions>>

\* one call ensure_session_state(state)
EnsureSession ==
    /\ ops < MaxSends
    /\ \E r \in {ensure_session_state(state)} :
          /\ state' = r.state
          /\ uuid_count' = uuid_count + r.uuids
    /\ ops' = ops + 1
    /\ op_log' = Append(op_log, [op |-> "ensure_session_state",
                                  before |-> state])
    /\ UNCHANGED <<agent_vars, pc, step, llm_calls, allowed_agents, messages,
                   tool_calls, tc_index, args, final_text, events, exc,
                   assistant_msg, provider, sent, auth_calls, fetches, remote,
                   chain, environ, tasks,
                   _active_sessions, _sessions>>

SendNext ==
    \/ \E agent_name \in SendNames, reply \in Replies :
          SendMessage(agent_name, "find a room in LA", reply)
    \/ EnsureSession

SpecSend == SendInit /\ [][SendNext]_vars

---------------------------------------------------------------------------
(* Specification of session states: ensure_session_state and send_message
   on the session states a caller of handle may pass *)

\* a session id the caller put into the state
PRESET_ID == [preset |-> "session-0"]

\* the session states passed: empty, with an id, with an id and marked
\* inactive, marked active without an id, with session_id None
SessionStates ==
    {EmptyDict,
     [session_id |-> PRESET_ID],
     [session_id |-> PRESET_ID, session_active |-> FALSE],
     [session_active |-> TRUE],
     [session_id |-> Nothing]}

SessionNames == {FINDER, "hotel"}

SessionReplies == {[kind |-> "task", id |-> "task-1"],
                   [kind |-> "raise", id |-> None]}

SessionInit ==
    /\ AgentInit(ConfiguredAddresses, {FINDER_URL, RESERVE_URL, WEATHER_URL})
    /\ HandleInit
    /\ chain = NoChain
    /\ environ = FullEnviron
    /\ remote = Nothing
    /\ provider = Nothing
    /\ state \in SessionStates
    /\ uuid_count = 0
    /\ sent = <<>>
    /\ auth_calls = <<>>
    /\ ops = 0
    /\ tasks = <<>>
    /\ _active_sessions = {}
    /\ _sessions = EmptyDict
    /\ op_log = <<>>

SessionNext ==
    \/ EnsureSession
    \/ \E agent_name \in SessionNames, reply \in SessionReplies :
          SendMessage(agent_name, "find a room in LA", reply)

SpecSession == SessionInit /\ [][SessionNext]_vars

---------------------------------------------------------------------------
(* Specification of a conversation: the successive user messages of one
   chat, each answered by get_response_from_agent, which calls handle *)

\* most user messages in one conversation
MaxMessages == 2

\* the session state get_response_from_agent passes to handle for a user
\* message, when `previous` was the state of the message before: the
\* `state = {}` of line 44
MessageState(previous) == EmptyDict

\* the constructed agent before the first user message
ChatInit == SendInit

\* a user message arrives: get_response_from_agent builds the session
\* state and handle begins by ensure_session_state(state)
GetResponse ==
    /\ Len(op_log) < MaxMessages
    /\ \E r \in {ensure_session_state(MessageState(state))} :
          /\ state' = r.state
          /\ uuid_count' = uuid_count + r.uuids
    /\ op_log' = Append(op_log, [op |-> "get_response_from_agent",
                                  previous |-> state])
    /\ UNCHANGED <<agent_vars, handle_vars, sent, auth_calls, fetches,
                   remote, chain, environ, ops, tasks,
                   _active_sessions, _sessions>>

\* a send_message tool call while the current message is handled
ChatSend(agent_name, task, reply) ==
    /\ op_log # <<>>
    /\ SendMessage(agent_name, task, reply)

ChatNext ==
    \/ GetResponse
    \/ \E agent_name \in SendNames, reply \in Replies :
          ChatSend(agent_name, "find a room in LA", reply)

SpecChat == ChatInit /\ [][ChatNext]_vars

---------------------------------------------------------------------------
(* Specification of name resolution: _resolve_agent_name over registries *)

\* most agents in a registry
MaxRegistry == 2

\* names the cards of remote agents carry
CardNames == {FINDER, RESERVE, WEATHER, "Finder", "Seller Agent"}

\* names requested from _resolve_agent_name
RequestedNames ==
    {None, "", "   ", FINDER, "AIRBNB AGENT - FINDER", "Finder", "finder",
     "seller agent", " weather ", "reserve", "airbnb",
     "ask the weather agent", "hotel"}

\* the registry after registering cards named `names`, in this order
RegistryOf(names) ==
    [i \in 1..Len(names) |->
        [name |-> names[i], value |-> "http://localhost:10002"]]

\* the registries of at most MaxRegistry agents: a dict has no key twice
Registries ==
    {RegistryOf(names) :
        names \in {q \in UNION {[1..n -> CardNames] : n \in 0..MaxRegistry} :
                      \A i, j \in 1..Len(q) : q[i] = q[j] => i = j}}

ResolveInit ==
    /\ remote_agent_connections \in Registries
    /\ cards = remote_agent_connections
    /\ fetches = <<>>
    /\ remote_agent_addresses = <<>>
    /\ feedback_records = <<>>
    /\ authorized_feedback_agent_ids = {}
    /\ authorized_feedback_agent_addr_by_id = EmptyDict
    /\ authorized_feedback_auth_id_by_target_id = EmptyDict
    /\ HandleInit
    /\ chain = NoChain
    /\ environ = FullEnviron
    /\ remote = Nothing
    /\ provider = Nothing
    /\ state = EmptyDict
    /\ uuid_count = 0
    /\ sent = <<>>
    /\ auth_calls = <<>>
    /\ ops = 0
    /\ tasks = <<>>
    /\ _active_sessions = {}
    /\ _sessions = EmptyDict
    /\ op_log = <<>>

\* one call _resolve_agent_name(requested); op_log holds the last call
Resolve(requested) ==
    /\ op_log' = <<[op |-> "_resolve_agent_name", requested |-> requested,
                    result |-> _resolve_agent_name(requested)]>>
    /\ UNCHANGED <<agent_vars, handle_vars, state, uuid_count, sent,
                   auth_calls, fetches, remote, chain, environ, ops, tasks,
                   _active_sessions, _sessions>>

ResolveNext == \E requested \in RequestedNames : Resolve(requested)

SpecResolve == ResolveInit /\ [][ResolveNext]_vars

---------------------------------------------------------------------------
(* Specification of a session on a growing registry: send_message calls of
   one session, and between them cards registered by a registration pass
   in progress *)

\* the agent_name arguments of the session's callers
GrowNames == {FINDER, "Finder", "finder", "airbnb"}

GrowReplies == {[kind |-> "task", id |-> "task-1"],
                [kind |-> "task", id |-> "task-2"]}

GrowInit ==
    /\ remote_agent_connections \in Registries
    /\ cards = remote_agent_connections
    /\ fetches = <<>>
    /\ remote_agent_addresses = <<>>
    /\ feedback_records = <<>>
    /\ authorized_feedback_agent_ids = {}
    /\ authorized_feedback_agent_addr_by_id = EmptyDict
    /\ authorized_feedback_auth_id_by_target_id = EmptyDict
    /\ HandleInit
    /\ chain = NoChain
    /\ environ = FullEnviron
    /\ remote = Nothing
    /\ provider = Nothing
    /\ state = EmptyDict
    /\ uuid_count = 0
    /\ sent = <<>>
    /\ auth_calls = <<>>
    /\ ops = 0
    /\ tasks = <<>>
    /\ _active_sessions = {}
    /\ _sessions = EmptyDict
    /\ op_log = <<>>

\* lines 215-218: a registration pass registers the card named `name`
RegisterCard(name) ==
    /\ Len(remote_agent_connections) <= MaxRegistry
    /\ ~Has(remote_agent_connections, name)
    /\ remote_agent_connections'
         = OrderedPut(remote_agent_connections, name, "http://localhost:10003")
    /\ cards' = OrderedPut(cards, name, "http://localhost:10003")
    /\ UNCHANGED <<remote_agent_addresses, feedback_records,
                   authorized_feedback_agent_ids,
                   authorized_feedback_agent_addr_by_id,
                   authorized_feedback_auth_id_by_target_id, handle_vars,
                   state, uuid_count, sent, auth_calls, fetches, remote,
                   chain, environ, ops, op_log, tasks,
                   _active_sessions, _sessions>>

GrowNext ==
    \/ \E agent_name \in GrowNames, reply \in GrowReplies :
          SendMessage(agent_name, "find a room in LA", reply)
    \/ \E name \in CardNames : RegisterCard(name)

SpecGrow == GrowInit /\ [][GrowNext]_vars

---------------------------------------------------------------------------
(* Specification of the feedback operations: _authorize_feedback and
   submit_feedback on one RoutingAgent *)

\* most feedback operations on one RoutingAgent
MaxFeedbackOps == 3

\* the authorization transaction succeeds but no FeedbackAuthID is read
\* back within the polling window (erc8004_adapter.py:470-516)
LiveChainNoAuthId ==
    [LiveChain EXCEPT !.authorization.feedback_auth_id = None]

\* the authorization transaction fails or reverts
LiveChainAuthFails == [LiveChain EXCEPT !.authorization = Nothing]

\* the Finder is not in the identity registry
LiveChainNoFinder ==
    [LiveChain EXCEPT !.identities =
        (RESERVE_DOMAIN :> [agent_id |-> 2, address |-> "0xReserve"]) @@
        (ASSISTANT_DOMAIN :> [agent_id |-> 3, address |-> "0xAssistant"])]

\* the assistant is not in the identity registry
LiveChainNoAssistant ==
    [LiveChain EXCEPT !.identities =
        (FINDER_DOMAIN :> [agent_id |-> 1, address |-> "0xFinder"]) @@
        (RESERVE_DOMAIN :> [agent_id |-> 2, address |-> "0xReserve"])]

\* the private-key variables of the host's environment and their values
KeyValues ==
    ("ERC8004_PRIVATE_KEY_FINDER" :> "pk-finder") @@
    ("ERC8004_PRIVATE_KEY_RESERVE" :> "pk-reserve") @@
    ("ERC8004_PRIVATE_KEY_ASSISTANT" :> "pk-assistant") @@
    ("ERC8004_PRIVATE_KEY" :> "pk-generic")

\* os.environ with exactly the private-key variables `set` set
KeyEnviron(set) ==
    [k \in set \cup {"OPENAI_API_KEY"} |->
        IF k = "OPENAI_API_KEY" THEN "sk-test" ELSE KeyValues[k]]

\* every configuration of the per-variant and generic keys on a working
\* chain; every chain with all the variant keys set
FeedbackWorlds ==
    {[chain |-> LiveChain, environ |-> KeyEnviron(set)] :
        set \in SUBSET DOMAIN KeyValues}
    \cup {[chain |-> c, environ |-> FullEnviron] :
             c \in {LiveChainNoAuthId, LiveChainAuthFails, LiveChainNoFinder,
                    LiveChainNoAssistant, NoChain}}
    \cup {[chain |-> LiveChainNoAuthId,
           environ |-> KeyEnviron({"ERC8004_PRIVATE_KEY"})]}

\* arguments of the leave_feedback calls
FeedbackCalls ==
    {[agent_name |-> FINDER, rating |-> JInt(0)],
     [agent_name |-> FINDER, rating |-> JInt(7)],
     [agent_name |-> FINDER, rating |-> JStr("great")],
     [agent_name |-> "reserve", rating |-> JStr("4")],
     [agent_name |-> NOT_A_STR, rating |-> JInt(4)]}

\* target names of the authorize_feedback calls
AuthorizeTargets == {FINDER, "reserve", NOT_A_STR}

FeedbackInit ==
    /\ AgentInit(ConfiguredAddresses, {FINDER_URL, RESERVE_URL, WEATHER_URL})
    /\ HandleInit
    /\ \E w \in FeedbackWorlds : chain = w.chain /\ environ = w.environ
    /\ remote = Nothing
    /\ provider = Nothing
    /\ state = EmptyDict
    /\ uuid_count = 0
    /\ sent = <<>>
    /\ auth_calls = <<>>
    /\ ops = 0
    /\ tasks = <<>>
    /\ _active_sessions = {}
    /\ _sessions = EmptyDict
    /\ op_log = <<>>

\* one call submit_feedback(agent_name, rating, comment, state), as the
\* leave_feedback tool makes it
SubmitFeedback(agent_name, rating, comment) ==
    /\ ops < MaxFeedbackOps
    /\ \E r \in {submit_feedback(agent_name, rating, comment, state)} :
          /\ authorized_feedback_agent_ids' = r.caches.ids
          /\ authorized_feedback_agent_addr_by_id' = r.caches.addr_by_id
          /\ authorized_feedback_auth_id_by_target_id' =
                 r.caches.auth_id_by_target_id
          /\ feedback_records' = r.records
          /\ auth_calls' = auth_calls \o r.auth_calls
          /\ exc' = r.exc
          /\ op_log' = Append(op_log,
                              [op |-> "submit_feedback",
                               agent_name |-> agent_name, rating |-> rating,
                               exc |-> r.exc, result |-> r.result,
                               auth_calls |-> r.auth_calls])
    /\ ops' = ops + 1
    /\ UNCHANGED <<remote_agent_connections, cards, remote_agent_addresses,
                   state, uuid_count, pc, step, llm_calls, allowed_agents,
                   messages, tool_calls, tc_index, args, final_text, events,
                   assistant_msg, provider, sent, fetches, remote, chain,
                   environ, tasks,
                   _active_sessions, _sessions>>

\* one call _authorize_feedback(client_agent_name, target_agent_name), as
\* the authorize_feedback tool makes it
AuthorizeFeedback(client_agent_name, target_agent_name) ==
    /\ ops < MaxFeedbackOps
    /\ \E r \in {_authorize_feedback(client_agent_name, target_agent_name)} :
          /\ authorized_feedback_agent_ids' = r.caches.ids
          /\ authorized_feedback_agent_addr_by_id' = r.caches.addr_by_id
          /\ authorized_feedback_auth_id_by_target_id' =
                 r.caches.auth_id_by_target_id
          /\ auth_calls' = auth_calls \o r.auth_calls
          /\ exc' = r.exc
          /\ op_log' = Append(op_log,
                              [op |-> "_authorize_feedback",
                               agent_name |-> target_agent_name,
                               rating |-> Nothing,
                               exc |-> r.exc, result |-> r.result,
                               auth_calls |-> r.auth_calls])
    /\ ops' = ops + 1
    /\ UNCHANGED <<remote_agent_connections, cards, remote_agent_addresses,
                   feedback_records, state, uuid_count, pc, step, llm_calls,
                   allowed_agents, messages, tool_calls, tc_index, args,
                   final_text, events, assistant_msg, provider, sent, fetches,
                   remote, chain, environ, tasks,
                   _active_sessions, _sessions>>

FeedbackNext ==
    \/ \E c \in FeedbackCalls : SubmitFeedback(c.agent_name, c.rating, "great")
    \/ \E target \in AuthorizeTargets : AuthorizeFeedback("assistant", target)

SpecFeedback == FeedbackInit /\ [][FeedbackNext]_vars

\* agent names given to leave_feedback: card names, short names, and a
\* name that resolves to no registered agent
TargetNames == {FINDER, RESERVE, "reserve", WEATHER, "weather", "nonexistent"}

TargetsNext ==
    \E agent_name \in TargetNames : SubmitFeedback(agent_name, JInt(4), "great")

\* leave_feedback calls over every kind of agent name
SpecTargets == FeedbackInit /\ [][TargetsNext]_vars

\* the ids the reputation registry may report for an authorized pair
AuthIds == {"auth-1", "auth-2"}

\* the reputation registry comes to report another FeedbackAuthID for the
\* pair: every call of authorize_feedback_from_client sends a transaction
\* and reads the id back from the contract's views at that time
RegistryReissues(id) ==
    /\ chain.enabled
    /\ chain.authorization # Nothing
    /\ Truthy(chain.authorization.feedback_auth_id)
    /\ chain.authorization.feedback_auth_id # id
    /\ chain' = [chain EXCEPT !.authorization.feedback_auth_id = id]
    /\ UNCHANGED <<agent_vars, state, uuid_count, pc, step, llm_calls,
                   allowed_agents, messages, tool_calls, tc_index, args,
                   final_text, events, exc, assistant_msg, provider, sent,
                   auth_calls, fetches, remote, environ, ops, op_log, tasks,
                   _active_sessions, _sessions>>

ReissueNext ==
    \/ FeedbackNext
    \/ \E id \in AuthIds : RegistryReissues(id)

\* feedback operations against a registry whose reported id may change
SpecReissue == FeedbackInit /\ [][ReissueNext]_vars

---------------------------------------------------------------------------
(* Specification of registration: RoutingAgent.create followed by calls of
   _refresh_cards_if_needed, over address lists and networks *)

\* most addresses configured
MaxAddresses == 2

\* addresses a deployment may configure: the three of the sample, the
\* Finder under its path, the Finder without a scheme
AddressPool ==
    {FINDER_URL, RESERVE_URL, WEATHER_URL, "http://localhost:10002/finder",
     "finder.localhost:10002"}

\* the configured address lists
AddressLists == UNION {[1..n -> AddressPool] : n \in 0..MaxAddresses}

\* most calls of _refresh_cards_if_needed
MaxRefreshes == 2

\* which URLs answer during one registration pass: none; all; those on
\* localhost only (*.localhost does not resolve); the Finder's only, under
\* both its URLs; the Weather agent's only
RegisterNetworks ==
    {{},
     {FINDER_URL, RESERVE_URL, WEATHER_URL, "http://localhost:10002/finder",
      "http://localhost:10002/reserve"},
     {"http://localhost:10002/finder", "http://localhost:10002/reserve",
      WEATHER_URL},
     {FINDER_URL, "http://localhost:10002/finder"},
     {WEATHER_URL}}

RegisterInit ==
    /\ \E addresses \in AddressLists, net \in RegisterNetworks :
          /\ AgentInit(addresses, net)
          /\ op_log = <<[op |-> "_async_init_components", net |-> net,
                         before |-> <<>>, fetched |-> fetches]>>
    /\ HandleInit
    /\ chain = NoChain
    /\ environ = FullEnviron
    /\ remote = Nothing
    /\ provider = Nothing
    /\ state = EmptyDict
    /\ uuid_count = 0
    /\ sent = <<>>
    /\ auth_calls = <<>>
    /\ ops = 0
    /\ tasks = <<>>
    /\ _active_sessions = {}
    /\ _sessions = EmptyDict

\* one call _refresh_cards_if_needed() while exactly the URLs of net
\* answer
Refresh(net) ==
    /\ ops < MaxRefreshes
    /\ ops' = ops + 1
    /\ \E r \in {_refresh_cards_if_needed(
                     [conns |-> remote_agent_connections, cards |-> cards,
                      fetches |-> <<>>],
                     remote_agent_addresses, net)} :
          /\ remote_agent_connections' = r.conns
          /\ cards' = r.cards
          /\ fetches' = fetches \o r.fetches
          /\ op_log' = Append(op_log,
                              [op |-> "_refresh_cards_if_needed", net |-> net,
                               before |-> remote_agent_connections,
                               fetched |-> r.fetches])
    /\ UNCHANGED <<remote_agent_addresses, feedback_records,
                   authorized_feedback_agent_ids,
                   authorized_feedback_agent_addr_by_id,
                   authorized_feedback_auth_id_by_target_id, handle_vars,
                   state, uuid_count, sent, auth_calls, remote, chain,
                   environ, tasks,
                   _active_sessions, _sessions>>

RegisterNext == \E net \in RegisterNetworks : Refresh(net)

SpecRegister == RegisterInit /\ [][RegisterNext]_vars

---------------------------------------------------------------------------
(* Specification of concurrent sessions: the coroutines of several handle
   calls on the one RoutingAgent, each inside _refresh_cards_if_needed,
   run on one event loop; a coroutine runs alone from one await to the
   next and the others run while it awaits a card *)

\* most sessions whose handle calls overlap
MaxSessions == 2

Sessions == 1..MaxSessions

\* a coroutine that has not entered handle
IdleTask ==
    [pc |-> "idle", k |-> 0, url |-> None, fallback |-> FALSE,
     probed |-> <<>>, registered |-> <<>>]

ConcurrentInit ==
    /\ \E addresses \in AddressLists, net \in RegisterNetworks :
          AgentInit(addresses, net)
    /\ HandleInit
    /\ chain = NoChain
    /\ environ = FullEnviron
    /\ remote = Nothing
    /\ provider = Nothing
    /\ state = EmptyDict
    /\ uuid_count = 0
    /\ sent = <<>>
    /\ auth_calls = <<>>
    /\ ops = 0
    /\ op_log = <<>>
    /\ tasks = [s \in Sessions |-> IdleTask]
    /\ _active_sessions = {}
    /\ _sessions = EmptyDict

\* the coroutine t going on to address number k of the loop of line 208:
\* it awaits the card of that address, or leaves the loop
NextAddress(t, k) ==
    IF k > Len(remote_agent_addresses)
    THEN [t EXCEPT !.pc = "done", !.k = k, !.url = None, !.fallback = FALSE]
    ELSE [t EXCEPT !.pc = "await_card", !.k = k,
                   !.url = remote_agent_addresses[k], !.fallback = FALSE,
                   !.probed = Append(@, remote_agent_addresses[k])]

\* the fetches made once the coroutine is in position t
FetchesWith(t) ==
    IF t.pc = "await_card" THEN Append(fetches, t.url) ELSE fetches

\* session s calls handle: lines 645-646 and _refresh_cards_if_needed up
\* to its first await
EnterRefresh(s) ==
    /\ tasks[s].pc = "idle"
    /\ \E t \in {IF remote_agent_connections # <<>>
                  \/ remote_agent_addresses = <<>>
                 THEN [tasks[s] EXCEPT !.pc = "done"]
                 ELSE NextAddress(tasks[s], 1)} :
          /\ tasks' = [tasks EXCEPT ![s] = t]
          /\ fetches' = FetchesWith(t)
    /\ UNCHANGED <<remote_agent_connections, cards, remote_agent_addresses,
                   feedback_records, authorized_feedback_agent_ids,
                   authorized_feedback_agent_addr_by_id,
                   authorized_feedback_auth_id_by_target_id, handle_vars,
                   state, uuid_count, sent, auth_calls, remote, chain,
                   environ, ops, op_log, _active_sessions, _sessions>>

\* the card fetch session s awaits completes while exactly the URLs of
\* net answer, and the coroutine runs on to its next await
CardFetched(s, net) ==
    /\ tasks[s].pc = "await_card"
    /\ \E card \in {get_agent_card(tasks[s].url, net)} :
       \E address \in {remote_agent_addresses[tasks[s].k]} :
          IF card # None
          THEN /\ remote_agent_connections'
                    = OrderedPut(remote_agent_connections, card, tasks[s].url)
               /\ cards' = OrderedPut(cards, card, address)
               /\ \E t \in {NextAddress(
                                [tasks[s] EXCEPT
                                    !.registered = Append(@, card)],
                                tasks[s].k + 1)} :
                     /\ tasks' = [tasks EXCEPT ![s] = t]
                     /\ fetches' = FetchesWith(t)
          ELSE /\ UNCHANGED <<remote_agent_connections, cards>>
               /\ \E t \in {IF ~tasks[s].fallback
                                /\ FallbackAddress(address) # None
                             THEN [tasks[s] EXCEPT
                                      !.url = FallbackAddress(address),
                                      !.fallback = TRUE,
                                      !.probed = Append(@,
                                          FallbackAddress(address))]
                             ELSE NextAddress(tasks[s], tasks[s].k + 1)} :
                     /\ tasks' = [tasks EXCEPT ![s] = t]
                     /\ fetches' = FetchesWith(t)
    /\ UNCHANGED <<remote_agent_addresses, feedback_records,
                   authorized_feedback_agent_ids,
                   authorized_feedback_agent_addr_by_id,
                   authorized_feedback_auth_id_by_target_id, handle_vars,
                   state, uuid_count, sent, auth_calls, remote, chain,
                   environ, ops, op_log, _active_sessions, _sessions>>

ConcurrentNext ==
    \E s \in Sessions :
       \/ EnterRefresh(s)
       \/ \E net \in RegisterNetworks : CardFetched(s, net)

SpecConcurrent == ConcurrentInit /\ [][ConcurrentNext]_vars

---------------------------------------------------------------------------
(* Specification of a handle call during which the registry grows: while
   the handle call of one session is suspended at a yield, the handle call
   of another session runs _refresh_cards_if_needed on the empty registry *)

\* the generator of handle is suspended at, or resumes from, a yield
SuspendedAtYield ==
    /\ pc \in {"dispatch", "tool_call", "llm", "final"}
    /\ events # <<>>

\* _refresh_cards_if_needed of another session's handle call, on the
\* empty registry (on a registry that holds an agent it returns at once)
LateRefresh(net) ==
    /\ SuspendedAtYield
    /\ remote_agent_connections = <<>>
    /\ Refresh(net)

LateJoinNext ==
    \/ Next
    \/ \E net \in RegisterNetworks : LateRefresh(net)

SpecLateJoin == Init /\ [][LateJoinNext]_vars

---------------------------------------------------------------------------
(* The weather agent: WeatherExecutor *)

\* most execute calls on one WeatherExecutor
MaxExecutes == 2

Executes == 1..MaxExecutes

\* context.context_id of the requests
WeatherContexts == {"ctx-1", "ctx-2"}

\* an execute call that has not been made yet
NoExecute == [pc |-> "idle", context_id |-> None, updates |-> <<>>]

\* the state of the host agent, which the weather agent does not touch
host_vars == <<agent_vars, handle_vars, state, uuid_count, sent, auth_calls, fetches, remote, chain, environ, ops, op_log>>

\* WeatherExecutor.__init__ (lines 52-54), no request made yet
WeatherInit ==
    /\ AgentInit(<<>>, {})
    /\ HandleInit
    /\ chain = NoChain
    /\ environ = FullEnviron
    /\ remote = Nothing
    /\ provider = Nothing
    /\ state = EmptyDict
    /\ uuid_count = 0
    /\ sent = <<>>
    /\ auth_calls = <<>>
    /\ ops = 0
    /\ op_log = <<>>
    /\ tasks = [c \in Executes |-> NoExecute]
    /\ _active_sessions = {}
    /\ _sessions = EmptyDict

\* lines 116-119: call c of execute starts for context_id and awaits its
\* status updates (`submitted` only when the request has no current task)
ExecuteStarts(c, context_id, current_task) ==
    /\ tasks[c].pc = "idle"
    /\ tasks' = [tasks EXCEPT ![c] =
                    [pc |-> "await_status", context_id |-> context_id,
                     updates |-> IF current_task THEN <<"working">>
                                 ELSE <<"submitted", "working">>]]
    /\ UNCHANGED <<host_vars, _active_sessions, _sessions>>

\* lines 118-119: updater.update_status raises before line 122 is reached
StatusRaises(c) ==
    /\ tasks[c].pc = "await_status"
    /\ tasks' = [tasks EXCEPT ![c].pc = "raised"]
    /\ UNCHANGED <<host_vars, _active_sessions, _sessions>>

\* a session's message history with one more message (the list of a new
\* session starts with the system message, lines 126-131)
AppendMessage(sessions, session_id, role) ==
    Put(sessions, session_id,
        Append(Get(sessions, session_id, <<"system">>), role))

\* lines 121-147 and on to the next await: the session is marked active,
\* the user message is appended and the (synchronous) first completion
\* asks for a tool, answers with text, or raises into the finally block
ExecuteEnters(c, completion) ==
    /\ tasks[c].pc = "await_status"
    /\ \E session_id \in {tasks[c].context_id} :
          /\ _sessions' = AppendMessage(_sessions, session_id, "user")
          /\ _active_sessions' =
                 IF completion = "raise"
                 THEN (_active_sessions \cup {session_id}) \ {session_id}
                 ELSE _active_sessions \cup {session_id}
    /\ tasks' = [tasks EXCEPT ![c].pc =
                    CASE completion = "tool_calls" -> "await_update"
                      [] completion = "text" -> "await_artifact"
                      [] OTHER -> "raised"]
    /\ UNCHANGED host_vars

\* lines 149-177: the "Using tools" update is out, the assistant message
\* is recorded and the tool implementation is awaited
ToolAwaited(c) ==
    /\ tasks[c].pc = "await_update"
    /\ _sessions' = AppendMessage(_sessions, tasks[c].context_id, "assistant")
    /\ tasks' = [tasks EXCEPT ![c].pc = "await_tool",
                               ![c].updates = Append(@, "working")]
    /\ UNCHANGED <<host_vars, _active_sessions>>

\* lines 177-198: the tool returns, its message is appended and the
\* (synchronous) final completion answers or raises into the finally block
ToolReturns(c, completion) ==
    /\ tasks[c].pc = "await_tool"
    /\ _sessions' = AppendMessage(_sessions, tasks[c].context_id, "tool")
    /\ IF completion = "raise"
       THEN /\ _active_sessions' = _active_sessions \ {tasks[c].context_id}
            /\ tasks' = [tasks EXCEPT ![c].pc = "raised"]
       ELSE /\ tasks' = [tasks EXCEPT ![c].pc = "await_artifact"]
            /\ UNCHANGED _active_sessions
    /\ UNCHANGED host_vars

\* lines 198-202: the artifact and the `completed` status are out and the
\* finally block runs
ExecuteCompletes(c) ==
    /\ tasks[c].pc = "await_artifact"
    /\ _active_sessions' = _active_sessions \ {tasks[c].context_id}
    /\ tasks' = [tasks EXCEPT ![c].pc = "done",
                               ![c].updates = Append(@, "completed")]
    /\ UNCHANGED <<host_vars, _sessions>>

\* an awaited operation inside the try block raises: lines 201-202
ExecuteRaises(c) ==
    /\ tasks[c].pc \in {"await_update", "await_tool", "await_artifact"}
    /\ _active_sessions' = _active_sessions \ {tasks[c].context_id}
    /\ tasks' = [tasks EXCEPT ![c].pc = "raised"]
    /\ UNCHANGED <<host_vars, _sessions>>

\* WeatherExecutor.cancel (204-215): the session is dropped from the
\* active set and ServerError(UnsupportedOperationError) is raised
Cancel(context_id) ==
    /\ _active_sessions' = _active_sessions \ {context_id}
    /\ UNCHANGED <<host_vars, tasks, _sessions>>

WeatherNext ==
    \/ \E c \in Executes, context_id \in WeatherContexts, current_task \in BOOLEAN :
          ExecuteStarts(c, context_id, current_task)
    \/ \E c \in Executes : StatusRaises(c)
    \/ \E c \in Executes, completion \in {"tool_calls", "text", "raise"} :
          ExecuteEnters(c, completion)
    \/ \E c \in Executes : ToolAwaited(c)
    \/ \E c \in Executes, completion \in {"text", "raise"} :
          ToolReturns(c, completion)
    \/ \E c \in Executes : ExecuteCompletes(c)
    \/ \E c \in Executes : ExecuteRaises(c)
    \/ \E context_id \in WeatherContexts : Cancel(context_id)

\* execute and cancel calls interleaving at their awaits on one executor
SpecWeather == WeatherInit /\ [][WeatherNext]_vars

---------------------------------------------------------------------------
(* Properties of one handle call (Spec) *)

Last(s) == s[Len(s)]

\* _openai_client() found its key
HasApiKey == Truthy(getenv("OPENAI_API_KEY", None))

\* a call of the LLM provider raised instead of returning
ProviderRaised == exc = "APIError"

\* handle returned or raised
Stopped == pc \in {"done", "raised"}

\* the last LLM response requested no tool
NoToolCalls == assistant_msg # Nothing /\ assistant_msg.tool_calls = <<>>

\* the loop of lines 725-829 has been left
LoopEnded == pc \in {"final", "done"} \/ (pc = "raised" /\ llm_calls > 0)

\* the positions after a tool branch that completed: the next tool call,
\* the next LLM turn, or the code after the loop once the budget is used
Continues(p) == p \in {"tool_call", "llm", "final"}

\* es is (tool_call, tool_response)*, each response named as its call
Paired(es) ==
    /\ Len(es) % 2 = 0
    /\ \A i \in 1..Len(es) :
          IF i % 2 = 1 THEN es[i].type = "tool_call"
          ELSE es[i].type = "tool_response" /\ es[i].name = es[i - 1].name

\* C1: whatever the LLM provider answers, when every LLM, remote-agent and
\* registry call returns, handle does not stop before it has emitted the
\* `final` event: a handle call that stopped without a provider failure
\* returned, and the last event it yielded is `final`.
C1_StopsWithFinal ==
    (Stopped /\ HasApiKey /\ ~ProviderRaised) =>
        (pc = "done" /\ events # <<>> /\ Last(events).type = "final")

\* C2: the LLM provider is invoked at most max_steps (6) times in one handle
\* call, and when the loop has ended it ended by a response without tool
\* calls, by the budget being used up, or by the provider raising.
C2_BudgetAndExits ==
    /\ llm_calls <= max_steps
    /\ LoopEnded => \/ ProviderRaised
                    \/ pc # "raised" /\ NoToolCalls
                    \/ pc # "raised" /\ step = max_steps

\* C4: executing a tool call, whatever its name, its arguments and the
\* failure of the dispatched operation, raises nothing out of handle, appends
\* one tool result for that call to the transcript, and goes on to the next
\* tool call or LLM turn.
C4_ToolOutcomeContinues ==
    [][pc = "dispatch" =>
          /\ pc' # "raised" /\ exc' = None
          /\ Continues(pc')
          /\ Len(messages') = Len(messages) + 1
          /\ Last(messages').role = "tool"
          /\ Last(messages').tool_call_id = tool_calls[tc_index].id]_vars

\* C10: the events of one handle call are (tool_call, tool_response)* final.
\* While a tool is being executed its tool_call is the last event and all
\* earlier events are paired; between tools the events are paired; a handle
\* call that stopped without a provider failure yielded paired events and
\* then exactly one final, last.
C10_EventOrder ==
    /\ pc = "dispatch" =>
          /\ events # <<>>
          /\ Last(events).type = "tool_call"
          /\ Last(events).name = tool_calls[tc_index].name
          /\ Paired(SubSeq(events, 1, Len(events) - 1))
    /\ pc \in {"start", "llm", "tool_call", "final"} => Paired(events)
    /\ (Stopped /\ HasApiKey /\ ~ProviderRaised) =>
          /\ events # <<>>
          /\ Last(events).type = "final"
          /\ Paired(SubSeq(events, 1, Len(events) - 1))

\* C3: once an LLM response has requested no tool, handle makes no further
\* LLM call and executes no tool (nothing is sent, authorized, recorded or
\* appended any more), it is at or past the final yield, and when it has
\* returned it yielded exactly one final event, whose content is that
\* response's text, or the empty string for a response without content.
C3_NoToolCallsIsTerminal ==
    /\ [](NoToolCalls =>
            /\ pc \in {"final", "done"}
            /\ pc = "done" =>
                  /\ Last(events) =
                         [type |-> "final",
                          content |-> IF Truthy(assistant_msg.content)
                                      THEN assistant_msg.content ELSE ""]
                  /\ Cardinality({i \in 1..Len(events) :
                                     events[i].type = "final"}) = 1)
    /\ [][NoToolCalls =>
            /\ llm_calls' = llm_calls
            /\ assistant_msg' = assistant_msg
            /\ <<messages, sent, auth_calls, feedback_records, state>>' =
                   <<messages, sent, auth_calls, feedback_records, state>>
            /\ pc' = "done"]_vars

\* a response without tool calls and without content followed a round of
\* tools, and handle returned with final content ''
C3_Witness ==
    /\ pc = "done"
    /\ NoToolCalls
    /\ assistant_msg.content = None
    /\ llm_calls > 1
    /\ Last(events) = [type |-> "final", content |-> ""]

\* the tool call being executed is a send_message whose agent_name
\* _resolve_agent_name cannot map to a registered agent
UnresolvedSend ==
    /\ pc = "dispatch"
    /\ tool_calls[tc_index].name = "send_message"
    /\ args.type = "dict"
    /\ ~Truthy(_resolve_agent_name(Get(args.items, "agent_name", None)))

\* tool call tc is a send_message with an object for arguments
ParsedSend(tc) ==
    /\ tc.name = "send_message"
    /\ json_loads(tc.arguments).ok
    /\ json_loads(tc.arguments).value.type = "dict"

\* every tool call the provider of this run requests is a send_message to
\* a name that cannot be resolved
OnlyUnresolvedSends ==
    \A k \in 1..Len(provider.tool_calls) :
        /\ ParsedSend(provider.tool_calls[k])
        /\ ~Truthy(_resolve_agent_name(
               Get(json_loads(provider.tool_calls[k].arguments).value.items,
                   "agent_name", None)))

\* C5: executing a send_message whose agent_name cannot be resolved
\* delivers nothing to any remote agent; the tool message appended to the
\* transcript and the tool_response event carry the error with the allowed
\* agent names; handle goes on.  The LLM is called at most max_steps times,
\* and a run in which the LLM only ever requests such calls stops, unless
\* the provider failed, with `final` as its last event.
C5_UnresolvedAgent ==
    /\ [][UnresolvedSend =>
            /\ sent' = sent
            /\ Continues(pc')
            /\ messages' =
                   Append(messages,
                          ToolMessage(tool_calls[tc_index],
                                      ErrorMsg("Routing error", "ValueError",
                                               Keys(remote_agent_connections))))
            /\ events' =
                   Append(events,
                          [type |-> "tool_response", name |-> "send_message",
                           content |->
                               [error |->
                                    ErrorMsg("Routing error", "ValueError",
                                             Keys(remote_agent_connections))]])
         ]_vars
    /\ [](llm_calls <= max_steps)
    /\ []((OnlyUnresolvedSends /\ Stopped /\ HasApiKey /\ ~ProviderRaised) =>
             (pc = "done" /\ Last(events).type = "final"))

\* with agents registered, the LLM asked for an agent that does not exist
\* in every turn of the budget; nothing was sent and handle returned
C5_Witness ==
    /\ pc = "done"
    /\ remote_agent_connections # <<>>
    /\ OnlyUnresolvedSends
    /\ llm_calls = max_steps
    /\ sent = <<>>
    /\ \E i \in 1..Len(events) :
          /\ events[i].type = "tool_response"
          /\ events[i].content =
                 [error |-> ErrorMsg("Routing error", "ValueError",
                                     <<FINDER, RESERVE, WEATHER>>)]

\* json.loads raises JSONDecodeError on the arguments of tool call tc
Unparseable(tc) ==
    ~json_loads(IF Truthy(tc.arguments) THEN tc.arguments ELSE "{}").ok

\* args = {}
EmptyArgs == [type |-> "dict", items |-> EmptyDict]

\* C6: a tool call whose arguments are not JSON gets args = {}: its
\* tool_call event has content {}; the tool is then executed as with no
\* arguments (send_message with agent_name None and task '', leave_feedback
\* with agent_name None, rating 5 and comment ''), its result is appended to
\* the transcript and handle goes on.
C6_MalformedArguments ==
    [][/\ (pc = "tool_call" /\ Unparseable(tool_calls[tc_index])) =>
             /\ args' = EmptyArgs
             /\ events' = Append(events,
                                 [type |-> "tool_call",
                                  name |-> tool_calls[tc_index].name,
                                  content |-> EmptyArgs])
             /\ pc' = "dispatch"
       /\ (pc = "dispatch" /\ Unparseable(tool_calls[tc_index])) =>
             /\ Continues(pc')
             /\ Len(messages') = Len(messages) + 1
             /\ Last(messages').tool_call_id = tool_calls[tc_index].id
             /\ tool_calls[tc_index].name = "send_message" =>
                   /\ sent' = sent
                   /\ Last(messages').content =
                          ErrorMsg("Routing error", "ValueError",
                                   allowed_agents)
             /\ tool_calls[tc_index].name = "leave_feedback" =>
                   /\ Last(messages').content =
                          json_dumps(submit_feedback(None, JInt(5), "",
                                                     state).result)
                   /\ feedback_records' =
                          submit_feedback(None, JInt(5), "", state).records
      ]_vars

\* a leave_feedback call with non-JSON arguments was executed with the
\* defaults: a record with rating 5 (100 percent) and no notes exists
C6_Witness ==
    /\ pc = "done"
    /\ \E k \in 1..Len(provider.tool_calls) :
          /\ provider.tool_calls[k].name = "leave_feedback"
          /\ Unparseable(provider.tool_calls[k])
    /\ \E i \in 1..Len(events) :
          events[i].type = "tool_call" /\ events[i].content = EmptyArgs
    /\ feedback_records # <<>>
    /\ Last(feedback_records).Rating = 100
    /\ Last(feedback_records).Data.notes = ""

---------------------------------------------------------------------------
(* Properties of a session (SpecSend) *)

\* state['task_ids_by_agent'] and state['context_ids_by_agent']
TaskIds(st) == Get(st, "task_ids_by_agent", EmptyDict)
ContextIds(st) == Get(st, "context_ids_by_agent", EmptyDict)

\* request i is the first one delivered to its agent
FirstToAgent(i) == \A k \in 1..(i - 1) : sent[k].agent # sent[i].agent

\* C7: when the first send_message delivered to an agent returned a Task
\* with id T, every later payload delivered to that agent has taskId = T.
C7_TaskIdReused ==
    \A i, j \in 1..Len(sent) :
        (/\ i < j
         /\ sent[i].agent = sent[j].agent
         /\ FirstToAgent(i)
         /\ sent[i].reply.kind = "task") =>
            (/\ "taskId" \in DOMAIN sent[j].payload
             /\ sent[j].payload.taskId = sent[i].reply.id)

\* C8: every payload delivered carries a contextId; payloads sent under the
\* same agent name carry the same one, the one stored for that name; a name
\* has a stored context id only once a send to it went out; and no
\* operation on the session changes or removes a stored context id.
C8_ContextIdStable ==
    /\ [](/\ \A i \in 1..Len(sent) :
               /\ "contextId" \in DOMAIN sent[i].payload
               /\ sent[i].requested \in DOMAIN ContextIds(state)
               /\ sent[i].payload.contextId =
                      ContextIds(state)[sent[i].requested]
          /\ \A n \in DOMAIN ContextIds(state) :
               \E i \in 1..Len(sent) : sent[i].requested = n)
    /\ [][\A n \in DOMAIN ContextIds(state) :
             /\ n \in DOMAIN ContextIds(state')
             /\ ContextIds(state')[n] = ContextIds(state)[n]]_vars

\* three payloads went out, two under one name with one context id and one
\* under another name
C8_Witness ==
    /\ Len(sent) = 3
    /\ sent[1].requested = sent[3].requested
    /\ sent[1].requested # sent[2].requested
    /\ sent[1].payload.contextId = sent[3].payload.contextId
    /\ sent[1].reply.kind = "raise"

---------------------------------------------------------------------------
(* C11: the tool calls of one LLM response run one at a time, in order *)

\* the transcript ends with the assistant message that requested tool_calls
\* followed by the results of its first n calls, in the requested order
ResultsAppended(n) ==
    /\ Len(messages) > n
    /\ messages[Len(messages) - n].role = "assistant"
    /\ messages[Len(messages) - n].tool_calls = tool_calls
    /\ \A k \in 1..n :
          /\ messages[Len(messages) - n + k].role = "tool"
          /\ messages[Len(messages) - n + k].tool_call_id = tool_calls[k].id

\* the calls made to collaborators so far: LLM provider, remote agents,
\* feedback authorization
CollaboratorCalls == llm_calls + Len(sent) + Len(auth_calls)

\* C11: the tool calls of one LLM response are executed one at a time in
\* the requested order.  Tool k+1 is not started (its arguments are not
\* parsed, it is not dispatched) until the results of tools 1..k are in
\* the transcript; the LLM is called again only when the results of all
\* the tool calls of the turn are in the transcript; and no step of handle
\* makes more than one call to a collaborator.
C11_ToolsOneAtATime ==
    /\ [](pc \in {"tool_call", "dispatch"} => ResultsAppended(tc_index - 1))
    /\ [][llm_calls' # llm_calls /\ llm_calls > 0
            => ResultsAppended(Len(tool_calls))]_vars
    /\ [][CollaboratorCalls' <= CollaboratorCalls + 1]_vars

\* a turn of MaxToolCalls tool calls has run, with a call to a remote
\* agent and a caught failure among them, and the LLM is about to be
\* called again
C11_Witness ==
    /\ pc = "llm"
    /\ llm_calls = 1
    /\ Len(tool_calls) = MaxToolCalls
    /\ Len(sent) >= 1
    /\ \E k \in 1..Len(events) :
          /\ events[k].type = "tool_response"
          /\ DOMAIN events[k].content = {"error"}

---------------------------------------------------------------------------
(* C12, C13: name resolution *)

\* the calls of _resolve_agent_name in op_log
ResolveCalls == {i \in 1..Len(op_log) : op_log[i].op = "_resolve_agent_name"}

\* the names the claim lists as resolving to the Finder
FinderSpellings == {"Finder", "finder", "seller agent"}

\* a registered name other than `canonical` that equals `requested`
\* when case is ignored
Shadowed(requested, canonical) ==
    \E i \in 1..Len(remote_agent_connections) :
       /\ remote_agent_connections[i].name # canonical
       /\ Lower(remote_agent_connections[i].name) = Lower(requested)

\* C12 as stated: with an agent registered as "Airbnb Agent - Finder",
\* "Finder", "finder" and "seller agent" all resolve to that name, whatever
\* other agents are registered alongside it.
C12_FinderSpellings ==
    \A i \in ResolveCalls :
       Has(remote_agent_connections, FINDER)
       /\ op_log[i].requested \in FinderSpellings
       => op_log[i].result = FINDER

\* C12, amended: with an agent registered as "Airbnb Agent - Finder",
\* "Finder", "finder" and "seller agent" all resolve to that name unless
\* another registered agent's name equals the requested name when case is
\* ignored; such an agent is returned instead, by the exact or the
\* case-insensitive rule.
C12_FinderSpellingsUnlessShadowed ==
    \A i \in ResolveCalls :
       Has(remote_agent_connections, FINDER)
       /\ op_log[i].requested \in FinderSpellings
       => IF Shadowed(op_log[i].requested, FINDER)
          THEN /\ op_log[i].result # FINDER
               /\ Lower(op_log[i].result) = Lower(op_log[i].requested)
          ELSE op_log[i].result = FINDER

\* "seller agent" resolved to the Finder in a registry that also holds
\* another agent
C12_Witness ==
    /\ Len(remote_agent_connections) = MaxRegistry
    /\ Has(remote_agent_connections, FINDER)
    /\ \E i \in ResolveCalls :
          /\ op_log[i].requested = "seller agent"
          /\ op_log[i].result = FINDER

\* the positions of the registered names equal to `requested` when case is
\* ignored
CaseInsensitiveMatches(requested) ==
    {i \in 1..Len(remote_agent_connections) :
        Lower(remote_agent_connections[i].name) = Lower(requested)}

\* the alias table applies: the lowered, stripped name is an alias and the
\* agent it stands for is registered
AliasApplies(requested) ==
    /\ Strip(Lower(requested)) \in DOMAIN alias_map
    /\ Has(remote_agent_connections, alias_map[Strip(Lower(requested))])

\* the positions of the registered names that contain the lowered, stripped
\* requested name or are contained in it, case ignored
SubstringMatches(requested) ==
    {i \in 1..Len(remote_agent_connections) :
        \/ Contains(Strip(Lower(requested)),
                    Lower(remote_agent_connections[i].name))
        \/ Contains(Lower(remote_agent_connections[i].name),
                    Strip(Lower(requested)))}

\* the registered name at the least position of S
FirstOf(S) ==
    remote_agent_connections[CHOOSE i \in S : \A j \in S : i <= j].name

\* the result of the first rule that matches, none when no rule matches
FirstRuleResult(requested) ==
    IF Has(remote_agent_connections, requested) THEN requested
    ELSE IF CaseInsensitiveMatches(requested) # {}
    THEN FirstOf(CaseInsensitiveMatches(requested))
    ELSE IF AliasApplies(requested) THEN alias_map[Strip(Lower(requested))]
    ELSE IF SubstringMatches(requested) # {}
    THEN FirstOf(SubstringMatches(requested))
    ELSE None

\* C13: _resolve_agent_name applies its rules in the order exact match,
\* case-insensitive match, alias table (only when the alias target is
\* registered), substring in either direction, and returns the result of
\* the first rule that matches; it returns none when no rule matches, so
\* for every input when the registry is empty and for the empty requested
\* name; every result other than none is a name in the registry.
C13_RuleOrder ==
    \A i \in ResolveCalls :
       /\ op_log[i].requested \in {None, ""} => op_log[i].result = None
       /\ remote_agent_connections = <<>> => op_log[i].result = None
       /\ op_log[i].result # None
             => Has(remote_agent_connections, op_log[i].result)
       /\ Truthy(op_log[i].requested)
             => op_log[i].result = FirstRuleResult(op_log[i].requested)

\* the substring rule decided between two registered names that both
\* match, after the exact, case-insensitive and alias rules did not
C13_Witness ==
    \E i \in ResolveCalls :
       /\ op_log[i].requested = "airbnb"
       /\ Cardinality(SubstringMatches("airbnb")) >= 2
       /\ op_log[i].result = remote_agent_connections[1].name

---------------------------------------------------------------------------
(* C14 - C20: feedback authorization and feedback records *)

\* this step is one call of submit_feedback / of _authorize_feedback
SubmitStep ==
    Len(op_log') = Len(op_log) + 1 /\ Last(op_log').op = "submit_feedback"

AuthorizeStep ==
    Len(op_log') = Len(op_log) + 1 /\ Last(op_log').op = "_authorize_feedback"

\* the call returned a dict with status ok
ReturnedOk(call) == call.exc = None /\ call.result.status = "ok"

\* n clamped into [1, 5]
ClampedInto1To5(n) == IF n < 1 THEN 1 ELSE IF n > 5 THEN 5 ELSE n

\* C14: submit_feedback clamps the rating into [1, 5] and stores
\* ratingPercent = 20 * clamped rating: a rating of 7 is stored as 100, a
\* rating of 0 as 20, and every stored ratingPercent is one of 20, 40, 60,
\* 80, 100.
C14_RatingPercent ==
    /\ [](\A i \in 1..Len(feedback_records) :
             feedback_records[i].Rating \in {20, 40, 60, 80, 100})
    /\ [][SubmitStep /\ feedback_records' # feedback_records
            /\ "int" \in DOMAIN Last(op_log').rating
            => /\ Last(feedback_records').Rating
                    = 20 * ClampedInto1To5(Last(op_log').rating.int)
               /\ Last(op_log').rating.int = 7
                    => Last(feedback_records').Rating = 100
               /\ Last(op_log').rating.int = 0
                    => Last(feedback_records').Rating = 20]_vars

\* ratings 0 and 7 have both been stored
C14_Witness ==
    /\ \E i, j \in 1..Len(op_log) :
          /\ op_log[i].op = "submit_feedback" /\ ReturnedOk(op_log[i])
          /\ op_log[i].rating = JInt(0)
          /\ op_log[j].op = "submit_feedback" /\ ReturnedOk(op_log[j])
          /\ op_log[j].rating = JInt(7)
    /\ \E i, j \in 1..Len(feedback_records) :
          feedback_records[i].Rating = 20 /\ feedback_records[j].Rating = 100

\* the authorization invocation `call` succeeded: the adapter returned a
\* result
Succeeded(call) ==
    authorize_feedback_from_client(chain, call.client_agent_id,
                                   call.server_agent_id,
                                   call.signing_private_key) # Nothing

\* calls i and i + 1 of op_log are leave_feedback calls for one target
ConsecutiveFeedback(i) ==
    /\ op_log[i].op = "submit_feedback" /\ ReturnedOk(op_log[i])
    /\ op_log[i + 1].op = "submit_feedback" /\ ReturnedOk(op_log[i + 1])
    /\ op_log[i].result.agentId = op_log[i + 1].result.agentId

\* C15: two consecutive leave_feedback calls for the same target invoke the
\* authorization exactly once: when the first call authorized inline and
\* the authorization succeeded, the second call makes no authorization
\* call.
C15_SecondCallReusesAuthorization ==
    \A i \in 1..(Len(op_log) - 1) :
       /\ ConsecutiveFeedback(i)
       /\ Len(op_log[i].auth_calls) = 1
       /\ Succeeded(op_log[i].auth_calls[1])
       => op_log[i + 1].auth_calls = <<>>

\* C16: once an authorization has succeeded for a target id, by the
\* authorize_feedback tool or inline in leave_feedback, with or without a
\* FeedbackAuthID in its result, the target id is cached and no later
\* leave_feedback for that target invokes the authorization again.
C16_AuthorizedOnce ==
    /\ [](\A k \in 1..Len(auth_calls) :
             Succeeded(auth_calls[k])
             => auth_calls[k].server_agent_id \in authorized_feedback_agent_ids)
    /\ [][SubmitStep /\ ReturnedOk(Last(op_log'))
            /\ (\E k \in 1..Len(auth_calls) :
                   /\ Succeeded(auth_calls[k])
                   /\ auth_calls[k].server_agent_id
                        = Last(op_log').result.agentId)
            => Last(op_log').auth_calls = <<>>]_vars

\* the identity registered under `domain` cannot be resolved
Unresolvable(domain) == domain \notin DOMAIN chain.identities

\* the target or the client of an authorization for target_agent_name
\* cannot be resolved by domain
IdentityMissing(target_agent_name) ==
    \/ Unresolvable(TargetDomain(IsReserve(target_agent_name)))
    \/ Unresolvable(ASSISTANT_DOMAIN)

\* C17: authorize_feedback returns a structured {status: "error", message}
\* result, without raising, without invoking the authorization and
\* without changing any cache, whenever the identity of the target or of
\* the client cannot be resolved by domain (for target names that are
\* strings).
C17_UnresolvedIdentityIsError ==
    [][AuthorizeStep /\ Last(op_log').agent_name # NOT_A_STR
       /\ IdentityMissing(Last(op_log').agent_name)
       => /\ Last(op_log').exc = None
          /\ exc' = None
          /\ DOMAIN Last(op_log').result = {"status", "message"}
          /\ Last(op_log').result.status = "error"
          /\ Last(op_log').auth_calls = <<>>
          /\ auth_calls' = auth_calls
          /\ UNCHANGED <<authorized_feedback_agent_ids,
                         authorized_feedback_agent_addr_by_id,
                         authorized_feedback_auth_id_by_target_id,
                         feedback_records>>]_vars

\* after an authorization for the Reserve agent filled the caches, an
\* authorization for the Finder, which the registry does not know,
\* returned the error result
C17_Witness ==
    /\ Unresolvable(FINDER_DOMAIN)
    /\ authorized_feedback_agent_ids # {}
    /\ op_log # <<>>
    /\ Last(op_log).op = "_authorize_feedback"
    /\ Last(op_log).agent_name = FINDER
    /\ Last(op_log).result.status = "error"

\* the key of the server agent registered with id server_agent_id: the
\* per-variant key of the Reserve or of the Finder agent
ServerKey(server_agent_id) ==
    IF RESERVE_DOMAIN \in DOMAIN chain.identities
       /\ chain.identities[RESERVE_DOMAIN].agent_id = server_agent_id
    THEN getenv("ERC8004_PRIVATE_KEY_RESERVE", None)
    ELSE getenv("ERC8004_PRIVATE_KEY_FINDER", None)

\* C18: every invocation of the authorization, by the authorize_feedback
\* tool or inline in leave_feedback, is signed with the key of the target
\* (server) agent and never with the key of the client (assistant), for
\* every configuration of the per-variant and generic keys and every
\* target agent name.
C18_SignedByTarget ==
    \A k \in 1..Len(auth_calls) :
       Truthy(auth_calls[k].signing_private_key)
       => /\ auth_calls[k].signing_private_key
               = ServerKey(auth_calls[k].server_agent_id)
          /\ auth_calls[k].signing_private_key # assistant_pk

\* an authorization for target_id succeeded before this step and its
\* result carried no FeedbackAuthID
AuthorizedWithoutId(target_id) ==
    \E k \in 1..Len(auth_calls) :
       /\ auth_calls[k].server_agent_id = target_id
       /\ Succeeded(auth_calls[k])
       /\ ~Truthy(chain.authorization.feedback_auth_id)

\* eip155:<chainId>:<clientAddress> for the client address the
\* authorization reported
SynthesizedAuthId ==
    "eip155:" \o getenv("ERC8004_CHAIN_ID", "11155111") \o ":"
    \o chain.authorization.client_address

\* C19: when an authorization succeeded for a target but its result had no
\* FeedbackAuthID, a later leave_feedback for that target returns and
\* stores a record whose FeedbackAuthID is the synthesized
\* eip155:<chainId>:<clientAddress>, not none, whether the authorization
\* was made by the authorize_feedback tool or inline by an earlier
\* leave_feedback.
C19_SynthesizedAuthId ==
    [][SubmitStep /\ ReturnedOk(Last(op_log'))
       /\ AuthorizedWithoutId(Last(op_log').result.agentId)
       => /\ Len(feedback_records') = Len(feedback_records) + 1
          /\ Last(feedback_records').FeedbackAuthID # None
          /\ Last(feedback_records').FeedbackAuthID = SynthesizedAuthId]_vars

---------------------------------------------------------------------------
(* C21: the external effects of leave_feedback *)

\* C21: leave_feedback writes nothing external for the rating itself.  One
\* call invokes the authorization operation at most once, and not at all
\* when a FeedbackAuthID is cached for the target; it sends nothing to a
\* remote agent, fetches no card, and leaves the registries as they are:
\* its other registry accesses are identity lookups.
C21_OnlyAuthorizationIsExternal ==
    [][SubmitStep
       => /\ auth_calls' = auth_calls \o Last(op_log').auth_calls
          /\ Len(Last(op_log').auth_calls) <= 1
          /\ (ReturnedOk(Last(op_log'))
               /\ Last(op_log').result.agentId
                    \in DOMAIN authorized_feedback_auth_id_by_target_id)
                => Last(op_log').auth_calls = <<>>
          /\ UNCHANGED <<sent, fetches, llm_calls, chain, remote,
                         remote_agent_connections, cards>>]_vars

\* one leave_feedback call appended its record after invoking the
\* authorization once, the next appended its record without invoking it
C21_Witness ==
    /\ Len(feedback_records) = 2
    /\ Len(auth_calls) = 1
    /\ \E i \in 1..(Len(op_log) - 1) :
          /\ ConsecutiveFeedback(i)
          /\ Len(op_log[i].auth_calls) = 1
          /\ op_log[i + 1].auth_calls = <<>>

---------------------------------------------------------------------------
(* C22: the feedback records are append-only *)

\* sequence a is a prefix of sequence b
IsPrefix(a, b) == Len(a) <= Len(b) /\ SubSeq(b, 1, Len(a)) = a

\* the call is a leave_feedback call that returned status ok
IsOkFeedback(call) == call.op = "submit_feedback" /\ ReturnedOk(call)

\* the leave_feedback calls that returned ok, in the order they were made
OkFeedbackCalls == SelectSeq(op_log, IsOkFeedback)

\* C22: the feedback record sequence is append-only: the sequence observed
\* before any step is a prefix of the sequence observed after it, so no
\* record is mutated, reordered or deleted; and the export endpoint returns
\* the records in insertion order: its i-th element is the record of the
\* i-th leave_feedback call that stored one.
C22_AppendOnly ==
    /\ [][IsPrefix(feedback_records, feedback_records')]_vars
    /\ [](/\ Len(feedback_json) = Len(OkFeedbackCalls)
           /\ \A i \in 1..Len(feedback_json) :
                 /\ feedback_json[i] = json_dumps(feedback_records[i])
                 /\ feedback_records[i].Rating
                      = 20 * OkFeedbackCalls[i].result.rating
                 /\ feedback_records[i].Domain
                      = OkFeedbackCalls[i].result.domain)

\* records with different ratings for different agents were stored and
\* are exported in the order of their calls
C22_Witness ==
    /\ Len(feedback_records) >= 2
    /\ feedback_records[1].Rating = 20
    /\ feedback_records[1].Domain = FINDER_DOMAIN
    /\ feedback_records[2].Rating = 80
    /\ feedback_records[2].Domain = RESERVE_DOMAIN
    /\ Len(feedback_json) = Len(feedback_records)

---------------------------------------------------------------------------
(* C23 - C25: registration passes *)

\* the pass recorded as `pass` probed the configured addresses: the pass
\* of create always, a refresh only on an empty registry
PassRan(pass) ==
    \/ pass.op = "_async_init_components"
    \/ pass.before = <<>> /\ remote_agent_addresses # <<>>

\* the fetches one configured address costs while the URLs of net answer:
\* the address, and the rewritten address when the first fetch fails and
\* the rewrite gives another address
ProbeFetches(address, net) ==
    IF address \in net \/ FallbackAddress(address) \in {None, address}
    THEN <<address>>
    ELSE <<address, FallbackAddress(address)>>

RECURSIVE PassFetches(_, _)
\* the fetches of one pass over `addresses`
PassFetches(addresses, net) ==
    IF addresses = <<>> THEN <<>>
    ELSE ProbeFetches(Head(addresses), net)
         \o PassFetches(Tail(addresses), net)

\* the URL at which the probe of `address` got a card, or None
ProbedUrl(address, net) ==
    IF address \in net THEN address
    ELSE IF FallbackAddress(address) \in net \ {None}
    THEN FallbackAddress(address)
    ELSE None

\* C23: _refresh_cards_if_needed fetches no card and changes nothing when
\* the registry holds at least one agent; it runs the registration pass
\* over the configured address list, as create did, only when the
\* registry is empty.
C23_RefreshOnlyWhenEmpty ==
    [][Len(op_log') = Len(op_log) + 1
       /\ Last(op_log').op = "_refresh_cards_if_needed"
       => IF remote_agent_connections # <<>>
          THEN /\ Last(op_log').fetched = <<>>
               /\ UNCHANGED <<remote_agent_connections, cards, fetches,
                              remote_agent_addresses>>
          ELSE /\ Last(op_log').fetched
                    = PassFetches(remote_agent_addresses, Last(op_log').net)
               /\ fetches' = fetches \o Last(op_log').fetched
               /\ remote_agent_connections'
                    = _async_init_components(remote_agent_addresses,
                                             Last(op_log').net).conns
               /\ UNCHANGED remote_agent_addresses]_vars

\* a refresh on a registry that create left empty registered an agent,
\* and a refresh on a registry that holds an agent was made
C23_Witness ==
    /\ Len(op_log) >= 3
    /\ op_log[2].before = <<>>
    /\ op_log[2].fetched # <<>>
    /\ op_log[3].before # <<>>
    /\ op_log[3].fetched = <<>>

\* the passes of op_log that probed the configured addresses
RanPasses == {i \in 1..Len(op_log) : PassRan(op_log[i])}

\* C24: for each configured address one registration pass makes at most
\* two card fetches, the original address and, only after that fetch
\* failed and the rewrite gave another address, one fetch of the rewritten
\* address; an address whose fetches all fail is skipped and the
\* addresses after it are still probed.
C24_AtMostTwoFetchesPerAddress ==
    \A i \in RanPasses :
       /\ op_log[i].fetched
            = PassFetches(remote_agent_addresses, op_log[i].net)
       /\ \A k \in 1..Len(remote_agent_addresses) :
             Len(ProbeFetches(remote_agent_addresses[k], op_log[i].net)) <= 2
       /\ Len(op_log[i].fetched) <= 2 * Len(remote_agent_addresses)

\* a refresh pass probed an address whose original and rewritten fetch
\* both failed and registered the address after it
C24_Witness ==
    /\ Len(remote_agent_addresses) = 2
    /\ Len(op_log) = 2
    /\ 2 \in RanPasses
    /\ ProbedUrl(remote_agent_addresses[1], op_log[2].net) = None
    /\ Len(ProbeFetches(remote_agent_addresses[1], op_log[2].net)) = 2
    /\ ProbedUrl(remote_agent_addresses[2], op_log[2].net) # None
    /\ Len(op_log[2].fetched) = 3
    /\ Len(remote_agent_connections) = 1

\* the declared name of the card the probe of `address` got, or None
ProbedName(address, net) ==
    IF ProbedUrl(address, net) = None THEN None
    ELSE CardNameAt(ProbedUrl(address, net))

\* the declared names successfully probed in one pass
NamesProbed(addresses, net) ==
    {ProbedName(addresses[k], net) : k \in 1..Len(addresses)} \ {None}

\* the URL at which the last address declaring `name` was reached
LastProbe(name, addresses, net) ==
    ProbedUrl(addresses[CHOOSE k \in 1..Len(addresses) :
                  /\ ProbedName(addresses[k], net) = name
                  /\ \A j \in (k + 1)..Len(addresses) :
                        ProbedName(addresses[j], net) # name], net)

\* the passes that registered an agent
BuildingPasses ==
    {i \in RanPasses :
        NamesProbed(remote_agent_addresses, op_log[i].net) # {}}

\* C25: the registry is keyed by the declared name of the card: it holds
\* one entry per distinct declared name successfully probed, and a name
\* declared at two addresses is bound to the address probed later.
C25_KeyedByNameLastWins ==
    /\ \A i, j \in 1..Len(remote_agent_connections) :
          i # j => remote_agent_connections[i].name
                   # remote_agent_connections[j].name
    /\ BuildingPasses = {} => remote_agent_connections = <<>>
    /\ \A i \in BuildingPasses :
          /\ Len(remote_agent_connections)
               = Cardinality(NamesProbed(remote_agent_addresses,
                                         op_log[i].net))
          /\ \A k \in 1..Len(remote_agent_connections) :
                /\ remote_agent_connections[k].name
                     \in NamesProbed(remote_agent_addresses, op_log[i].net)
                /\ remote_agent_connections[k].value
                     = LastProbe(remote_agent_connections[k].name,
                                 remote_agent_addresses, op_log[i].net)

\* a refresh pass reached the same declared name at two different URLs and
\* left one entry, bound to the second
C25_Witness ==
    /\ Len(remote_agent_addresses) = 2
    /\ 2 \in BuildingPasses
    /\ ProbedName(remote_agent_addresses[1], op_log[2].net) # None
    /\ ProbedName(remote_agent_addresses[1], op_log[2].net)
         = ProbedName(remote_agent_addresses[2], op_log[2].net)
    /\ ProbedUrl(remote_agent_addresses[1], op_log[2].net)
         # ProbedUrl(remote_agent_addresses[2], op_log[2].net)
    /\ Len(remote_agent_connections) = 1
    /\ remote_agent_connections[1].value
         = ProbedUrl(remote_agent_addresses[2], op_log[2].net)

---------------------------------------------------------------------------
(* C26: concurrent registration *)

\* the elements of a sequence
Elements(seq) == {seq[i] : i \in 1..Len(seq)}

\* the sessions whose handle call ran a registration pass
Passers == {s \in Sessions : tasks[s].probed # <<>>}

\* C26: the registry is mutated by one session at a time: of the sessions
\* that call handle while the registry is empty only one runs the
\* registration pass, no address is probed by two of them and no name is
\* registered by two of them.
C26_OnePassOnly ==
    /\ Cardinality(Passers) <= 1
    /\ \A s1, s2 \in Sessions :
          s1 # s2 =>
             /\ Elements(tasks[s1].probed) \cap Elements(tasks[s2].probed) = {}
             /\ Elements(tasks[s1].registered)
                  \cap Elements(tasks[s2].registered) = {}

---------------------------------------------------------------------------
(* C27: authorizations of concurrent sessions *)

\* C27: the authorization caches are mutated by one session at a time:
\* when leave_feedback and authorize_feedback calls of several sessions
\* for one target overlap, the authorization of a (client, target) pair
\* is invoked once in total; no invocation follows one that succeeded
\* for the same pair.  (_authorize_feedback and submit_feedback contain no
\* await, so overlapping calls run one after the other in some order.)
C27_OneAuthorizationPerPair ==
    \A i, j \in 1..Len(auth_calls) :
       /\ i < j
       /\ auth_calls[i].client_agent_id = auth_calls[j].client_agent_id
       /\ auth_calls[i].server_agent_id = auth_calls[j].server_agent_id
       => ~Succeeded(auth_calls[i])

---------------------------------------------------------------------------
(* C28: the session state across the messages of a conversation *)

\* a user message after the first begins to be handled
LaterMessage ==
    /\ Len(op_log') = Len(op_log) + 1
    /\ Last(op_log').op = "get_response_from_agent"
    /\ Len(op_log) >= 1

\* the session keys that persist
SessionKeys == {"session_id", "task_ids_by_agent", "context_ids_by_agent"}

\* C28: across the successive user messages of one conversation the
\* caller passes the same session state to handle: the session id and the
\* task and context ids stored per agent are the same when the next
\* message begins to be handled.
C28_SessionStatePersists ==
    [][LaterMessage
       => \A key \in SessionKeys \cap DOMAIN state :
             key \in DOMAIN state' /\ state'[key] = state[key]]_vars

---------------------------------------------------------------------------
(* C29: the chat stream of a handle call that raised *)

\* the chat stream of the handle call so far
Stream == get_response_from_agent(events, IF pc = "raised" THEN exc ELSE None)

\* the messages of the stream that are the generic error message
ErrorMessages ==
    {i \in 1..Len(Stream.stream) :
        Stream.stream[i] = ChatMessage([text |-> ERROR_MESSAGE])}

\* C29: when handle raises, before any event or after some, the stream
\* shown to the user is the messages of the events yielded so far followed
\* by exactly one generic error message, which carries no detail of the
\* exception, and nothing is raised to the user; a call that has not raised
\* shows no error message.
C29_RaisedYieldsOneGenericError ==
    /\ Stream.exc = None
    /\ pc = "raised" =>
          /\ exc # None
          /\ Len(Stream.stream) = Len(events) + 1
          /\ ErrorMessages = {Len(Stream.stream)}
          /\ ~Contains(exc, Last(Stream.stream).content.text)
          /\ \A i \in 1..Len(events) :
                /\ "name" \in DOMAIN Stream.stream[i].content
                /\ Stream.stream[i].content.name = events[i].name
    /\ pc # "raised" => ErrorMessages = {}

\* handle raised after it had yielded a tool_call event
C29_Witness ==
    /\ pc = "raised"
    /\ events # <<>>
    /\ Len(Stream.stream) = Len(events) + 1

---------------------------------------------------------------------------
(* C30: ensure_session_state *)

\* one call of ensure_session_state is made
EnsureStep ==
    /\ Len(op_log') = Len(op_log) + 1
    /\ Last(op_log').op = "ensure_session_state"

\* the session state st holds a session id
HasId(st) == "session_id" \in DOMAIN st /\ st["session_id"] # Nothing

\* the session state st is marked active
Active(st) == "session_active" \in DOMAIN st /\ st["session_active"]

\* the session id of st, if any
SessionId(st) == Get(st, "session_id", Nothing)

\* C30: ensure_session_state is idempotent: it assigns a session id only
\* when the state holds none, and marks the session active; once it has
\* been called on a state, every later ensure_session_state or
\* send_message on that state leaves the session id unchanged and the
\* session active.
C30_EnsureSessionIdempotent ==
    [][/\ EnsureStep =>
             /\ Active(state')
             /\ HasId(state) =>
                   /\ SessionId(state') = SessionId(state)
                   /\ uuid_count' = uuid_count
             /\ SessionId(state') # SessionId(state) =>
                   /\ ~HasId(state)
                   /\ SessionId(state') = Uuid(uuid_count')
                   /\ uuid_count' = uuid_count + 1
             /\ Active(state) => state' = state
       /\ op_log # <<>> =>
             /\ Active(state) /\ Active(state')
             /\ SessionId(state') = SessionId(state)
             /\ ("session_id" \in DOMAIN state')
                  = ("session_id" \in DOMAIN state)]_vars

\* ensure_session_state was called on a state not yet active and then,
\* after a send_message, again on the active state, which holds an id
C30_Witness ==
    /\ Len(op_log) >= 2
    /\ ~Active(op_log[1].before)
    /\ Active(op_log[2].before)
    /\ "active_agent" \in DOMAIN op_log[2].before
    /\ HasId(state)

---------------------------------------------------------------------------
(* C31: one send per send_message tool call *)

\* the send_message tool call being dispatched names an agent that resolves
SendResolves ==
    /\ args.type = "dict"
    /\ Get(args.items, "agent_name", None) # NOT_A_STR
    /\ Truthy(_resolve_agent_name(Get(args.items, "agent_name", None)))

\* C31: a send_message tool call that reaches the remote agent delivers
\* exactly one request (none when the name does not resolve); when the
\* response is not a success or not a Task, send_message returns None,
\* which is appended as the tool result of that call and yielded, nothing
\* is sent again and the loop goes on.
C31_OneSendNoRetry ==
    [][pc = "dispatch" /\ tool_calls[tc_index].name = "send_message"
       => /\ Len(sent') = Len(sent) + (IF SendResolves THEN 1 ELSE 0)
          /\ (Len(sent') > Len(sent)
               /\ Last(sent').reply.kind \in {"error_response", "message"})
             => /\ exc' = None
                /\ Continues(pc')
                /\ Len(messages') = Len(messages) + 1
                /\ Last(messages')
                     = [role |-> "tool",
                        tool_call_id |-> tool_calls[tc_index].id,
                        name |-> "send_message",
                        content |-> json_dumps([str |-> "None"])]
                /\ Last(events')
                     = [type |-> "tool_response", name |-> "send_message",
                        content |-> [str |-> "None"]]]_vars

\* a send_message call got a response that is no Task, one request was
\* sent, and the LLM was called again
C31_Witness ==
    /\ Len(sent) = 1
    /\ sent[1].reply.kind \in {"error_response", "message"}
    /\ llm_calls >= 2
    /\ pc = "done"

---------------------------------------------------------------------------
(* C32: the agent names of the tool schemas *)

\* an LLM call is made
LLMCall == llm_calls' = llm_calls + 1

\* C32: the agent names enumerated in the tool schemas of every LLM call
\* are the names in the registry at that call, so an agent registered
\* while the handle call is in progress is selectable at the next call.
C32_SchemaFollowsRegistry ==
    [][LLMCall => allowed_agents = Keys(remote_agent_connections)]_vars

---------------------------------------------------------------------------
(* C33: what changes the conversation state *)

\* the active agent, the task-id map and the context-id map of st
Correlation(st) ==
    [active_agent |-> Get(st, "active_agent", None),
     task_ids_by_agent |-> Get(st, "task_ids_by_agent", Nothing),
     context_ids_by_agent |-> Get(st, "context_ids_by_agent", Nothing)]

\* C33: the active agent, the task-id map and the context-id map of the
\* session state change only in a send_message tool call whose agent
\* name resolves: leave_feedback, authorize_feedback, an unknown tool, a
\* send_message whose name does not resolve, and every other step of
\* handle leave all three as they were.
C33_OnlySendMessageChangesCorrelation ==
    [][Correlation(state') # Correlation(state)
       => /\ pc = "dispatch"
          /\ tool_calls[tc_index].name = "send_message"
          /\ SendResolves]_vars

\* after a send_message stored ids, a send_message with a name that does
\* not resolve or a leave_feedback was dispatched and answered
C33_Witness ==
    /\ Len(events) >= 4
    /\ events[1].name = "send_message"
    /\ events[3].name \in {"leave_feedback", "authorize_feedback"}
    /\ events[4].type = "tool_response"
    /\ Correlation(state).active_agent = FINDER
    /\ Correlation(state).task_ids_by_agent # Nothing
    /\ DOMAIN Correlation(state).task_ids_by_agent # {}

---------------------------------------------------------------------------
(* C34: task ids and the agents that returned them *)

\* request number i carries a task id
CarriesTaskId(i) == "taskId" \in DOMAIN sent[i].payload

\* the agent that received request number i returned the Task `id` in
\* answer to an earlier request
ReturnedBefore(i, id) ==
    \E j \in 1..(i - 1) :
       /\ sent[j].agent = sent[i].agent
       /\ sent[j].reply.kind = "task"
       /\ sent[j].reply.id = id

\* C34: within a session a request sent to a remote agent carries a task
\* id only if that agent returned it before: a task id returned by one
\* agent is never sent to another, whatever names are requested and
\* however the registry grows between the calls.
C34_TaskIdStaysWithItsAgent ==
    \A i \in 1..Len(sent) :
       CarriesTaskId(i) => ReturnedBefore(i, sent[i].payload.taskId)

----------------------------------------------------------------------------
(* Correlation ids per remote agent (SpecSend) *)

\* request i returned a Task before request j was built
ReturnedTask(i) == sent[i].reply.kind = "task"

\* C35: two send_message calls whose agent_name arguments differ but resolve
\* to the same registered agent carry the same contextId, and once that
\* agent has returned a Task the later call carries that Task's id as taskId.
C35_IdsPerAgentNotPerSpelling ==
    \A i, j \in 1..Len(sent) :
        (/\ i < j
         /\ sent[i].agent = sent[j].agent
         /\ sent[i].requested # sent[j].requested) =>
            /\ sent[i].payload.contextId = sent[j].payload.contextId
            /\ (\E k \in 1..(j - 1) :
                    sent[k].agent = sent[j].agent /\ ReturnedTask(k)) =>
                        "taskId" \in DOMAIN sent[j].payload
----------------------------------------------------------------------------
(* The exhausted step budget (Spec) *)

\* the handle call has yielded its final event
Finished == pc = "done" /\ events # <<>> /\ events[Len(events)].type = "final"

\* the loop ran all its iterations and the last response still asked for
\* tools: no response without tool calls was received
BudgetExhausted == step = max_steps /\ assistant_msg.tool_calls # <<>>

\* C36: when the step budget is exhausted without a response free of tool
\* calls, the content of the final event is the empty string, whatever text
\* the tool-requesting responses carried.
C36_ExhaustedBudgetFinalIsEmpty ==
    (Finished /\ BudgetExhausted) => events[Len(events)].content = ""

\* six tool-requesting responses, each with a text, then the final event
C36_Witness ==
    /\ Finished
    /\ BudgetExhausted
    /\ llm_calls = max_steps
    /\ Truthy(assistant_msg.content)
    /\ events[Len(events)].content = ""
----------------------------------------------------------------------------
(* The FeedbackAuthID cache (SpecFeedback, SpecReissue) *)

\* C37: once a FeedbackAuthID is cached for a target id, no operation
\* removes the entry or replaces it by a different value.
C37_CachedAuthIdIsStable ==
    [][\A t \in DOMAIN authorized_feedback_auth_id_by_target_id :
          /\ t \in DOMAIN authorized_feedback_auth_id_by_target_id'
          /\ authorized_feedback_auth_id_by_target_id'[t] =
                 authorized_feedback_auth_id_by_target_id[t]]_vars
----------------------------------------------------------------------------
(* The target of a feedback (SpecTargets) *)

\* a submit_feedback call has just returned or raised
FeedbackStep ==
    /\ Len(op_log') = Len(op_log) + 1
    /\ op_log'[Len(op_log')].op = "submit_feedback"

\* the names of TargetNames that resolve to a reserve agent
ReserveNames == {RESERVE, "reserve"}

\* C38: leave_feedback never raises for the agent name; a processed
\* feedback uses the reserve domain and "reserve:v1" exactly for names
\* resolving to a reserve agent, and the finder domain and "finder:v1" for
\* every other name, unresolved names and the weather agent included; a
\* feedback that is not processed fails on the registry lookup of that domain.
C38_NonReserveFeedbackGoesToFinder ==
    [][FeedbackStep =>
          \E e \in {op_log'[Len(op_log')]} :
          \E v \in {IF e.agent_name \in ReserveNames
                     THEN [domain |-> RESERVE_DOMAIN, skill |-> "reserve:v1"]
                     ELSE [domain |-> FINDER_DOMAIN, skill |-> "finder:v1"]} :
             /\ e.exc = None
             /\ e.result.status \in {"ok", "error"}
             /\ e.result.status = "error" =>
                    /\ e.result.message = "Could not resolve agent by domain"
                    /\ get_agent_by_domain(chain, v.domain) = Nothing
                    /\ feedback_records' = feedback_records
             /\ e.result.status = "ok" =>
                    /\ e.result.domain = v.domain
                    /\ Len(feedback_records') = Len(feedback_records) + 1
                    /\ feedback_records'[Len(feedback_records')].AgentSkillId
                           = v.skill
                    /\ feedback_records'[Len(feedback_records')].Domain
                           = v.domain]_vars

\* feedbacks for the weather agent, an unregistered name and a reserve name
\* were recorded: the first two under the finder's skill id and domain
C38_Witness ==
    /\ Len(op_log) = 3
    /\ op_log[1].agent_name = "weather"
    /\ op_log[2].agent_name = "nonexistent"
    /\ op_log[3].agent_name = "reserve"
    /\ Len(feedback_records) = 3
    /\ feedback_records[1].AgentSkillId = "finder:v1"
    /\ feedback_records[2].Domain = FINDER_DOMAIN
    /\ feedback_records[3].AgentSkillId = "reserve:v1"
----------------------------------------------------------------------------
(* The shape of the transcript (Spec) *)

RECURSIVE TurnsFrom(_, _)
\* m[i..] is a sequence of completed turns: an assistant message listing
\* tool calls, then one tool message per listed call, in order, with the
\* call's id
TurnsFrom(m, i) ==
    IF i > Len(m) THEN TRUE
    ELSE /\ m[i].role = "assistant"
         /\ m[i].tool_calls # <<>>
         /\ i + Len(m[i].tool_calls) <= Len(m)
         /\ \A k \in 1..Len(m[i].tool_calls) :
               /\ m[i + k].role = "tool"
               /\ m[i + k].tool_call_id = m[i].tool_calls[k].id
         /\ TurnsFrom(m, i + Len(m[i].tool_calls) + 1)

\* system prompt, user message, completed turns
Transcript(m) ==
    /\ Len(m) >= 2
    /\ m[1].role = "system"
    /\ m[2].role = "user"
    /\ TurnsFrom(m, 3)

\* C39: whenever the LLM is about to be called the transcript is the
\* system prompt, the user message and the completed turns, each an
\* assistant message with its tool calls followed by exactly one tool
\* message per call, in the same order and with the matching id; and every
\* step of handle extends the transcript without changing an earlier entry.
C39_TranscriptShape ==
    /\ [](pc = "llm" => Transcript(messages))
    /\ [][IsPrefix(messages, messages')]_vars

\* the third LLM call, after two turns of MaxToolCalls tool calls each
C39_Witness ==
    /\ pc = "llm"
    /\ llm_calls = 2
    /\ Len(messages) = 2 + 2 * (1 + MaxToolCalls)
    /\ Transcript(messages)
    /\ messages[3].tool_calls # messages[6].tool_calls
----------------------------------------------------------------------------
(* The active sessions of the weather executor (SpecWeather) *)

\* execute call c is between line 122 and its finally block
InFlight(c) == tasks[c].pc \in {"await_update", "await_tool", "await_artifact"}

\* C40: a context id is in the active-session set exactly while at least
\* one execute call for it is in flight: present as long as one is running,
\* two overlapping calls for one context id included, and absent once all
\* of them have finished, normally or by an exception.
C40_ActiveWhileInFlight ==
    \A context_id \in WeatherContexts :
        context_id \in _active_sessions
            <=> \E c \in Executes :
                   tasks[c].context_id = context_id /\ InFlight(c)
=============================================================================
